---- MODULE Spec2Model ----
(***************************************************************************)
(* The in-memory cache engine of ca-ching (cache.ts, eviction.ts,          *)
(* utils.ts): a chain of InMemoryCache instances, each with its entry map, *)
(* statistics and pending-fetch map, driven by get / getOrSet / set /      *)
(* invalidate* calls whose asynchronous continuations interleave.          *)
(*                                                                         *)
(* A JavaScript string is a sequence of tokens; the token "::" is the      *)
(* separator keyToString joins with and invalidateByPrefix splits on.      *)
(* Every action is one synchronous run of code between two awaits.         *)
(***************************************************************************)
EXTENDS Integers, Sequences, FiniteSets, TLC

VARIABLES
  options,         \* per cache level: the resolved options (fixed at construction)
  entries,         \* per level: the entry Map, in insertion order
  stats,           \* per level: CacheStats
  pendingFetches,  \* per level: keyStr -> id of the registered fetch promise (0: none)
  fetches,         \* per call id: the fetch-function invocation this call started
  calls,           \* per call id: the get / getOrSet call and where it is suspended
  now,             \* the value options.time() returns
  nops             \* number of public operations issued so far

vars == <<options, entries, stats, pendingFetches, fetches, calls, now, nops>>

\* ---------------------------------------------------------------- bounds
MaxOps == 3
MaxTime == 3

\* ---------------------------------------------------------------- inputs
SEP == "::"
StrKey(s) == [arr |-> FALSE, segs |-> <<s>>]
ArrKey(a) == [arr |-> TRUE, segs |-> a]
KeyA == StrKey(<<"a">>)
KeyAB == ArrKey(<<(<<"a">>), (<<"b">>)>>)
CacheKeys == {KeyA, KeyAB}
Prefixes == {<<>>, <<(<<"a">>)>>, <<(<<"a">>), (<<"b">>)>>, <<(<<"b">>)>>}
Values == {"v", "www"}
\* values that are futures: one still pending, one already resolved when it is stored
PendingFuture == "<pending>"
ResolvedFuture == "<resolved>"
Futures == {PendingFuture, ResolvedFuture}
NoTtl == <<>>
TtlArgs == {NoTtl}
CallIds == 1..MaxOps

\* ---------------------------------------------------------------- utils.ts
RECURSIVE join(_)
join(segs) ==
  IF Len(segs) = 0 THEN <<>>
  ELSE IF Len(segs) = 1 THEN segs[1]
  ELSE segs[1] \o <<SEP>> \o join(Tail(segs))

\* faulty variant: the segments are joined without the separator
keyToStringPlain(key) ==
  IF ~key.arr THEN key.segs[1]
  ELSE IF Len(key.segs) = 2 THEN key.segs[1] \o key.segs[2] ELSE join(key.segs)

keyToString(key) == IF ~key.arr THEN key.segs[1] ELSE join(key.segs)

RECURSIVE splitFrom(_, _)
\* str.split('::'): cur is the segment being collected
splitFrom(str, cur) ==
  IF Len(str) = 0 THEN <<cur>>
  ELSE IF Head(str) = SEP THEN <<cur>> \o splitFrom(Tail(str), <<>>)
  ELSE splitFrom(Tail(str), Append(cur, Head(str)))

split(str) == splitFrom(str, <<>>)

\* faulty variant: a key shorter than the prefix matches if it agrees as far as it goes
keyStartsWithShort(keyArray, prefix) ==
  \A i \in 1..Len(prefix) : i <= Len(keyArray) => keyArray[i] = prefix[i]

keyStartsWith(keyArray, prefix) ==
  IF Len(keyArray) < Len(prefix) THEN FALSE
  ELSE \A i \in 1..Len(prefix) : keyArray[i] = prefix[i]

\* JSON.stringify of a string value: the characters plus two quotes
calculateSizeBytes(value) == Len(value) + 2

\* faulty variant: only a future that is still pending counts as a promise
isPromisePendingOnly(value) == value = PendingFuture

\* a promise is recognised by its then method, whatever its state
isPromise(value) == value \in Futures

KeyStrs == {keyToString(k) : k \in CacheKeys}

\* the keys of the eviction scenarios
K1 == StrKey(<<"k1">>)
K2 == StrKey(<<"k2">>)
K3 == StrKey(<<"k3">>)
K4 == StrKey(<<"k4">>)
EvictKeys == {K1, K2, K3, K4}
EvictValues == {"v"}
\* the keys of the invalidation scenarios: "a", ["a", "b"] and the plain string "ab"
KeyAb == StrKey(<<"a", "b">>)
InvKeys == CacheKeys \cup {KeyAb}
InvPrefixes == Prefixes \cup {<<(<<"a", "b">>)>>}
\* keys given as one string each: "a", "ab" and "a::b", which contains the separator
KeySep == StrKey(<<"a", SEP, "b">>)
StringKeys == {KeyA, KeyAb, KeySep}
\* every key string a pending map may be asked for
AllKeyStrs == KeyStrs \cup {keyToString(k) : k \in EvictKeys \cup InvKeys}

\* ---------------------------------------------------------------- Map helpers
Levels == DOMAIN options
IndexOf(es, keyStr) ==
  IF \E i \in 1..Len(es) : es[i].key = keyStr
  THEN CHOOSE i \in 1..Len(es) : es[i].key = keyStr
  ELSE 0
Has(es, keyStr) == IndexOf(es, keyStr) # 0
EntryOf(es, keyStr) == es[IndexOf(es, keyStr)]
\* faulty variant: the entry is added also when the key is present
MapSetAppending(es, e) == Append(es, e)

\* Map.set keeps the position of a key that is already present
MapSet(es, e) ==
  IF Has(es, e.key) THEN [es EXCEPT ![IndexOf(es, e.key)] = e] ELSE Append(es, e)
MapDelete(es, keyStr) == SelectSeq(es, LAMBDA e : e.key # keyStr)
MapDeleteAll(es, ks) == SelectSeq(es, LAMBDA e : e.key \notin ks)
Range(s) == {s[i] : i \in 1..Len(s)}

RECURSIVE SumBytes(_)
SumBytes(es) == IF Len(es) = 0 THEN 0 ELSE Head(es).sizeBytes + SumBytes(Tail(es))

\* ---------------------------------------------------------------- eviction.ts
\* Array.prototype.sort is stable: position r of the sorted array holds the
\* entry with r-1 entries before it (smaller stamp, or equal stamp and earlier);
\* stamps[i] is the sort key of es[i]
\* faulty variant: among equal stamps the later entry comes first
LaterFirstSortKeys(es, stamps) ==
  LET before(i, j) == stamps[i] < stamps[j] \/ (stamps[i] = stamps[j] /\ i > j)
      rank(i) == Cardinality({j \in 1..Len(es) : before(j, i)})
  IN [r \in 1..Len(es) |-> es[CHOOSE i \in 1..Len(es) : rank(i) = r - 1].key]

StableSortKeys(es, stamps) ==
  LET before(i, j) == stamps[i] < stamps[j] \/ (stamps[i] = stamps[j] /\ i < j)
      rank(i) == Cardinality({j \in 1..Len(es) : before(j, i)})
  IN [r \in 1..Len(es) |-> es[CHOOSE i \in 1..Len(es) : rank(i) = r - 1].key]

Slice(s, n) == SubSeq(s, 1, IF n < Len(s) THEN n ELSE Len(s))

\* faulty variant: the entries are ordered by creation
LRUbyCreation(es, targetCount) ==
  {Slice(StableSortKeys(es, [i \in 1..Len(es) |-> es[i].createdAt]), targetCount)}

LRUselectForEviction(es, targetCount) ==
  {Slice(StableSortKeys(es, [i \in 1..Len(es) |-> es[i].lastAccessedAt]), targetCount)}

\* faulty variant: the entries are ordered by last access
FILObyAccess(es, targetCount) ==
  {Slice(StableSortKeys(es, [i \in 1..Len(es) |-> es[i].lastAccessedAt]), targetCount)}

FILOselectForEviction(es, targetCount) ==
  {Slice(StableSortKeys(es, [i \in 1..Len(es) |-> es[i].createdAt]), targetCount)}

RECURSIVE RandomPicks(_, _)
\* every result of the splice loop: targetCount distinct keys in any order
RandomPicks(keys, targetCount) ==
  IF targetCount <= 0 \/ Len(keys) = 0 THEN {<<>>}
  ELSE UNION {{<<keys[i]>> \o rest :
                 rest \in RandomPicks(SelectSeq(keys, LAMBDA k : k # keys[i]), targetCount - 1)} :
              i \in 1..Len(keys)}

\* faulty variant: one key too many is drawn
RandomTooMany(es, targetCount) ==
  RandomPicks([i \in 1..Len(es) |-> es[i].key], targetCount + 1)

RandomselectForEviction(es, targetCount) ==
  RandomPicks([i \in 1..Len(es) |-> es[i].key], targetCount)

\* the set of arrays the strategy may return
selectForEviction(policy, es, targetCount) ==
  CASE policy = "lru" -> LRUselectForEviction(es, targetCount)
    [] policy = "filo" -> FILOselectForEviction(es, targetCount)
    [] OTHER -> RandomselectForEviction(es, targetCount)

\* ---------------------------------------------------------------- cache.ts: private helpers
\* faulty variant: the byte total is never recomputed
updateSizeCountOnly(opt, st) == [st EXCEPT !.stats.size = Len(st.entries)]

\* a store is the pair [entries, stats] of one cache
updateSize(opt, st) ==
  [st EXCEPT !.stats.size = Len(st.entries),
             !.stats.sizeBytes = IF opt.maxSizeBytes # 0 THEN SumBytes(st.entries) ELSE @]

updateHitRatio(s) ==
  [s EXCEPT !.hitRatio = IF s.hits + s.misses > 0 THEN <<s.hits, s.hits + s.misses>> ELSE <<0, 1>>]

\* faulty variant: an entry expires already at age = ttl
isExpiredAtTtl(entry) == IF entry.ttl = 0 THEN FALSE ELSE now - entry.createdAt >= entry.ttl

isExpired(entry) == IF entry.ttl = 0 THEN FALSE ELSE now - entry.createdAt > entry.ttl

\* faulty variant: an entry without TTL is refreshed as well
shouldPrefetchWithoutTtl(opt, entry) ==
  IF opt.prefetchAfter = 0 THEN FALSE
  ELSE now - entry.createdAt >= opt.prefetchAfter

shouldPrefetch(opt, entry) ==
  IF opt.prefetchAfter = 0 \/ entry.ttl = 0 THEN FALSE
  ELSE now - entry.createdAt >= opt.prefetchAfter

\* faulty variant: the removed keys are not counted
evictKeysUncounted(opt, st, keysToEvict) ==
  updateSize(opt, [st EXCEPT !.entries = MapDeleteAll(@, Range(keysToEvict))])

\* delete every selected key, counting one eviction each, then updateSize
evictKeys(opt, st, keysToEvict) ==
  updateSize(opt, [st EXCEPT !.entries = MapDeleteAll(@, Range(keysToEvict)),
                             !.stats.evictions = @ + Len(keysToEvict)])

\* faulty variant: the overflow test is off by one
evictCountOffByOne(opt, st) ==
  IF Len(st.entries) > opt.maxSize + 1
  THEN {evictKeys(opt, st, sel) :
          sel \in selectForEviction(opt.evictionPolicy, st.entries, Len(st.entries) - opt.maxSize)}
  ELSE {st}

\* lines 297-308: the entry-count limit
evictCount(opt, st) ==
  IF Len(st.entries) > opt.maxSize
  THEN {evictKeys(opt, st, sel) :
          sel \in selectForEviction(opt.evictionPolicy, st.entries, Len(st.entries) - opt.maxSize)}
  ELSE {st}

\* faulty variant: the byte limit is enforced by an if, not a while
evictBytesOnce(opt, st) ==
  IF st.stats.sizeBytes # 0 /\ st.stats.sizeBytes > opt.maxSizeBytes /\ Len(st.entries) > 0
  THEN {IF Len(sel) = 0 THEN st ELSE evictKeys(opt, st, sel) :
          sel \in selectForEviction(opt.evictionPolicy, st.entries, 1)}
  ELSE {st}

RECURSIVE evictBytesKeepingLast(_, _)
\* faulty variant: the loop stops when one entry is left
evictBytesKeepingLast(opt, st) ==
  IF st.stats.sizeBytes # 0 /\ st.stats.sizeBytes > opt.maxSizeBytes /\ Len(st.entries) > 1
  THEN UNION {IF Len(sel) = 0 THEN {st} ELSE evictBytesKeepingLast(opt, evictKeys(opt, st, sel)) :
                sel \in selectForEviction(opt.evictionPolicy, st.entries, 1)}
  ELSE {st}

RECURSIVE evictBytes(_, _)
\* lines 314-328: the byte-limit loop
evictBytes(opt, st) ==
  IF st.stats.sizeBytes # 0 /\ st.stats.sizeBytes > opt.maxSizeBytes /\ Len(st.entries) > 0
  THEN UNION {IF Len(sel) = 0 THEN {st} ELSE evictBytes(opt, evictKeys(opt, st, sel)) :
                sel \in selectForEviction(opt.evictionPolicy, st.entries, 1)}
  ELSE {st}

evictIfNecessary(opt, st) ==
  IF opt.maxSizeBytes # 0
  THEN UNION {evictBytes(opt, updateSize(opt, s1)) : s1 \in evictCount(opt, st)}
  ELSE evictCount(opt, st)

\* ---------------------------------------------------------------- cache.ts: worlds
\* a world is the mutable state of all caches: [entries, stats, pendingFetches, fetches]
World == [entries |-> entries, stats |-> stats, pendingFetches |-> pendingFetches,
          fetches |-> fetches]

\* faulty variant: a new entry starts with access time 0
NewEntryNeverAccessed(opt, keyStr, value, ttlArg) ==
  [key |-> keyStr, value |-> value, createdAt |-> now, lastAccessedAt |-> 0,
   ttl |-> IF ttlArg = NoTtl THEN opt.ttl ELSE ttlArg[1],
   sizeBytes |-> IF opt.maxSizeBytes # 0 /\ ~isPromise(value)
                 THEN calculateSizeBytes(value) ELSE 0,
   isPrefetching |-> 0]

NewEntry(opt, keyStr, value, ttlArg) ==
  [key |-> keyStr, value |-> value, createdAt |-> now, lastAccessedAt |-> now,
   ttl |-> IF ttlArg = NoTtl THEN opt.ttl ELSE ttlArg[1],
   sizeBytes |-> IF opt.maxSizeBytes # 0 /\ ~isPromise(value)
                 THEN calculateSizeBytes(value) ELSE 0,
   isPrefetching |-> 0]

\* lines 160-189 of set: store the entry, update the size, evict
setLocal(w, L, key, value, ttlArg) ==
  LET opt == options[L]
      entry == NewEntry(opt, keyToString(key), value, ttlArg)
      st0 == updateSize(opt, [entries |-> MapSet(w.entries[L], entry), stats |-> w.stats[L]])
  IN {[w EXCEPT !.entries[L] = st.entries, !.stats[L] = st.stats] :
        st \in evictIfNecessary(opt, st0)}

\* faulty variant: the flag is ignored, every call is forwarded
forwardsIgnoringFlag(L, forwardToNext) == options[L].nextLevelCache # 0

\* lines 191-194 of set: does this call go on to the next level
forwards(L, forwardToNext) == forwardToNext /\ options[L].nextLevelCache # 0

RECURSIVE set(_, _, _, _, _, _)
\* the synchronous part of set runs through the whole chain before any await resumes
set(w, L, key, value, ttlArg, forwardToNext) ==
  IF forwards(L, forwardToNext)
  THEN UNION {set(w1, options[L].nextLevelCache, key, value, ttlArg, forwardToNext) :
                w1 \in setLocal(w, L, key, value, ttlArg)}
  ELSE setLocal(w, L, key, value, ttlArg)

\* faulty variant: removing entries starts the counters again
removeKeysResetting(w, L, ks) ==
  [w EXCEPT !.entries[L] = MapDeleteAll(w.entries[L], ks),
            !.stats[L] = [hits |-> 0, misses |-> 0, size |-> Len(MapDeleteAll(w.entries[L], ks)),
                          sizeBytes |-> 0, evictions |-> 0, prefetches |-> 0,
                          hitRatio |-> <<0, 1>>]]

\* remove the keys ks from level L and updateSize
removeKeys(w, L, ks) ==
  LET st == updateSize(options[L],
                       [entries |-> MapDeleteAll(w.entries[L], ks), stats |-> w.stats[L]])
  IN [w EXCEPT !.entries[L] = st.entries, !.stats[L] = st.stats]

\* faulty variant: the invalidation also cancels the fetches in flight for the key
invalidateCancelling(w, L, key, forwardToNext) ==
  LET w1 == IF Has(w.entries[L], keyToString(key))
            THEN removeKeys(w, L, {keyToString(key)}) ELSE w
  IN [w1 EXCEPT !.fetches = [c \in DOMAIN @ |->
                               IF @[c].status = "pending" /\ @[c].key = key
                               THEN [@[c] EXCEPT !.status = "rejected"] ELSE @[c]],
                !.pendingFetches[L][keyToString(key)] = 0]

RECURSIVE invalidate(_, _, _, _)
invalidate(w, L, key, forwardToNext) ==
  LET w1 == IF Has(w.entries[L], keyToString(key))
            THEN removeKeys(w, L, {keyToString(key)}) ELSE w
  IN IF forwards(L, forwardToNext)
     THEN invalidate(w1, options[L].nextLevelCache, key, forwardToNext)
     ELSE w1

RECURSIVE invalidateByPrefix(_, _, _, _)
invalidateByPrefix(w, L, keyPrefix, forwardToNext) ==
  LET keysToDelete == {e.key : e \in {x \in Range(w.entries[L]) :
                                        keyStartsWith(split(x.key), keyPrefix)}}
      w1 == removeKeys(w, L, keysToDelete)
  IN IF forwards(L, forwardToNext)
     THEN invalidateByPrefix(w1, options[L].nextLevelCache, keyPrefix, forwardToNext)
     ELSE w1

RECURSIVE invalidateAll(_, _, _)
invalidateAll(w, L, forwardToNext) ==
  LET w1 == removeKeys(w, L, {e.key : e \in Range(w.entries[L])})
  IN IF forwards(L, forwardToNext)
     THEN invalidateAll(w1, options[L].nextLevelCache, forwardToNext)
     ELSE w1

\* ---------------------------------------------------------------- cache.ts: get
NoRes == [kind |-> "none", value |-> ""]
Undefined == [kind |-> "undefined", value |-> ""]
Failure == [kind |-> "error", value |-> ""]
Val(v) == [kind |-> "value", value |-> v]
NoFetch == [kind |-> "none", level |-> 0, key |-> KeyA, status |-> "none", value |-> ""]
FetchModes == {"async", "sync", "throw"}
\* a fetch promise that has settled: only its kind and outcome are kept
settled(f, status, value) == [NoFetch EXCEPT !.kind = f.kind, !.status = status, !.value = value]

\* the get of level L settles with result r: the call is over when L is the level
\* it was issued on, else the handleCacheMiss of the level above resumes (line 340)
settle(L0, L, r) ==
  IF L = L0 THEN [pc |-> "done", cur |-> L, fetch |-> 0, res |-> r]
  ELSE [pc |-> "return", cur |-> L - 1, fetch |-> 0, res |-> r]

\* faulty variant: the miss is counted, the ratio is not recomputed
countMissStaleRatio(w, L) == [w EXCEPT !.stats[L].misses = @ + 1]

countMiss(w, L) == [w EXCEPT !.stats[L] = updateHitRatio([@ EXCEPT !.misses = @ + 1])]
countHit(w, L) == [w EXCEPT !.stats[L] = updateHitRatio([@ EXCEPT !.hits = @ + 1])]

\* lines 348-365: the fetch function with promise sharing, up to the await
fetchStep(w, L0, L, key, c, mode) ==
  IF options[L].fetchFunction
  THEN IF mode = "throw"
       THEN {[w |-> [w EXCEPT !.fetches[c] = [NoFetch EXCEPT !.kind = "miss",
                                                            !.status = "thrown"]],
              out |-> settle(L0, L, Failure)]}
       ELSE {[w |-> [w EXCEPT !.fetches[c] = [kind |-> "miss", level |-> L, key |-> key,
                                              status |-> "pending", value |-> ""],
                              !.pendingFetches[L][keyToString(key)] = c],
              out |-> [pc |-> "awaitFetch", cur |-> L, fetch |-> c, res |-> NoRes]]}
  ELSE {[w |-> w, out |-> settle(L0, L, Undefined)]}

\* faulty variant: the pending map is never consulted
hasPendingNever(w, L, keyStr) == FALSE

\* lines 334-336: a registered fetch for the key is shared
hasPending(w, L, keyStr) == w.pendingFetches[L][keyStr] # 0

\* lines 90-110: the prefetch of a hit, entry already marked by the caller
prefetch(w, L0, L, key, c, mode, fv, old) ==
  LET w1 == [w EXCEPT !.stats[L].prefetches = @ + 1,
                      !.entries[L][IndexOf(w.entries[L], old.key)].isPrefetching = c]
      rec(status) == [kind |-> "prefetch", level |-> L, key |-> key,
                      status |-> status, value |-> ""]
  IN CASE mode = "throw" ->
            \* the fetch function throws inside get: the call rejects at line 96
            {[w |-> [w1 EXCEPT !.fetches[c] = settled(rec("pending"), "thrown", "")],
              out |-> settle(L0, L, Failure)]}
       [] mode = "sync" ->
            \* lines 107-108: set at once; the flag is cleared on the replaced object
            {[w |-> countHit(w2, L), out |-> settle(L0, L, Val(old.value))] :
               w2 \in set([w1 EXCEPT !.fetches[c] = settled(rec("pending"), "resolved", fv)],
                          L, key, fv, NoTtl, TRUE)}
       [] OTHER ->
            {[w |-> countHit([w1 EXCEPT !.fetches[c] = rec("pending")], L),
              out |-> settle(L0, L, Val(old.value))]}

\* faulty variant: the refresh flag is never seen
isPrefetchingNever(entry) == FALSE

\* line 91: the refresh flag of the entry
isPrefetching(entry) == entry.isPrefetching # 0

RECURSIVE get(_, _, _, _, _, _, _)
\* the synchronous part of get on level L, for the call c issued on level L0.
\* mode and fv say how the fetch function behaves if this run invokes it.
get(w, L0, L, key, c, mode, fv) ==
  LET keyStr == keyToString(key)
      es == w.entries[L]
      opt == options[L]
      \* handleCacheMiss up to its first await
      handleCacheMiss(wm) ==
        IF hasPending(wm, L, keyStr)
        THEN {[w |-> wm, out |-> [pc |-> "attached", cur |-> L,
                                  fetch |-> wm.pendingFetches[L][keyStr], res |-> NoRes]]}
        ELSE IF opt.nextLevelCache # 0
        THEN get(wm, L0, opt.nextLevelCache, key, c, mode, fv)
        ELSE fetchStep(wm, L0, L, key, c, mode)
  IN IF ~Has(es, keyStr) THEN handleCacheMiss(countMiss(w, L))
     ELSE IF isExpired(EntryOf(es, keyStr))
     THEN handleCacheMiss(countMiss(removeKeys(w, L, {keyStr}), L))
     ELSE LET i == IndexOf(es, keyStr)
              w1 == [w EXCEPT !.entries[L][i].lastAccessedAt = now]
              entry == w1.entries[L][i]
          IN IF shouldPrefetch(opt, entry) /\ ~isPrefetching(entry) /\ opt.fetchFunction
             THEN prefetch(w1, L0, L, key, c, mode, fv, entry)
             ELSE {[w |-> countHit(w1, L), out |-> settle(L0, L, Val(entry.value))]}

\* ---------------------------------------------------------------- construction
Opt(maxSize, maxSizeBytes, ttl, evictionPolicy, fetchFunction, prefetchAfter, nextLevelCache) ==
  [maxSize |-> maxSize, maxSizeBytes |-> maxSizeBytes, ttl |-> ttl,
   evictionPolicy |-> evictionPolicy, fetchFunction |-> fetchFunction,
   prefetchAfter |-> prefetchAfter, nextLevelCache |-> nextLevelCache]

\* faulty variant: a prefetchAfter equal to the ttl is let through
constructibleAtTtl(opt) == ~(opt.prefetchAfter # 0 /\ opt.ttl # 0 /\ opt.prefetchAfter > opt.ttl)

\* lines 47-50: the constructor rejects prefetchAfter >= ttl
constructible(opt) == ~(opt.prefetchAfter # 0 /\ opt.ttl # 0 /\ opt.prefetchAfter >= opt.ttl)

NoCall == [op |-> "none", level |-> 0, key |-> KeyA, ttl |-> NoTtl,
           pc |-> "idle", cur |-> 0, fetch |-> 0, res |-> NoRes, invoked |-> 0]

\* lines 53-61 and the empty maps of lines 26 and 30
InitWith(configs) ==
  /\ options \in configs
  /\ \A L \in DOMAIN options : constructible(options[L])
  /\ entries = [L \in DOMAIN options |-> <<>>]
  /\ stats = [L \in DOMAIN options |->
                [hits |-> 0, misses |-> 0, size |-> 0, sizeBytes |-> 0, evictions |-> 0,
                 prefetches |-> 0, hitRatio |-> <<0, 1>>]]
  /\ pendingFetches = [L \in DOMAIN options |-> [k \in AllKeyStrs |-> 0]]
  /\ fetches = [c \in CallIds |-> NoFetch]
  /\ calls = [c \in CallIds |-> NoCall]
  /\ now = 0
  /\ nops = 0

\* eviction.ts 115-126: the policy names createEvictionStrategy knows
Policies == {"lru", "filo", "random"}

\* lines 32-62: new InMemoryCache(opt) while no cache exists. The constructor
\* throws at line 48 or inside createEvictionStrategy (line 52), or returns the
\* cache with empty maps and zeroed statistics
Construct(opt) ==
  /\ options = <<>>
  /\ nops < MaxOps
  /\ nops' = nops + 1
  /\ UNCHANGED <<fetches, now>>
  /\ IF constructible(opt) /\ opt.evictionPolicy \in Policies
     THEN /\ options' = <<opt>>
          /\ entries' = <<(<<>>)>>
          /\ stats' = <<[hits |-> 0, misses |-> 0, size |-> 0, sizeBytes |-> 0,
                         evictions |-> 0, prefetches |-> 0, hitRatio |-> <<0, 1>>]>>
          /\ pendingFetches' = <<[k \in AllKeyStrs |-> 0]>>
          /\ calls' = [calls EXCEPT ![nops + 1] =
                         [NoCall EXCEPT !.op = "new", !.pc = "done", !.res = Undefined]]
     ELSE /\ UNCHANGED <<options, entries, stats, pendingFetches>>
          /\ calls' = [calls EXCEPT ![nops + 1] =
                         [NoCall EXCEPT !.op = "new", !.pc = "done", !.res = Failure]]

\* ---------------------------------------------------------------- actions
Apply(w) ==
  /\ entries' = w.entries
  /\ stats' = w.stats
  /\ pendingFetches' = w.pendingFetches
  /\ fetches' = w.fetches

\* decorators.ts 136-147, after the await of cache.get in a method wrapped by
\* @CacheGet: a value is returned as it is (136-139); on undefined the original
\* method is invoked (142); a rejection is caught and the original method is
\* invoked in the catch block (145-147). invoked counts the invocations
afterCacheGet(call, res) ==
  CASE res.kind = "value" ->
         [call EXCEPT !.pc = "done", !.cur = 0, !.fetch = 0, !.res = res]
    [] res.kind = "undefined" ->
         [call EXCEPT !.pc = "method", !.cur = 0, !.fetch = 0, !.res = res, !.invoked = @ + 1]
    [] OTHER ->
         [call EXCEPT !.pc = "recover", !.cur = 0, !.fetch = 0, !.res = res, !.invoked = @ + 1]

\* the call record after a run that left the call at out; getOrSet goes on to its
\* producer when its get came back undefined (lines 149-154). A call that has
\* returned holds no state of the program any more: only its result is kept.
finish(call, out) ==
  IF out.pc = "done" /\ call.op = "CacheGet" THEN afterCacheGet(call, out.res)
  ELSE IF out.pc = "done" /\ call.op = "getOrSet" /\ out.res.kind = "undefined"
  THEN [call EXCEPT !.pc = "produce", !.cur = out.cur, !.fetch = out.fetch, !.res = out.res]
  ELSE IF out.pc = "done" THEN [NoCall EXCEPT !.pc = "done", !.res = out.res]
  ELSE [call EXCEPT !.pc = out.pc, !.cur = out.cur, !.fetch = out.fetch, !.res = out.res]

\* the ways a fetch function can answer, where one is configured
FetchModesOf(L) == IF \E l \in Levels : options[l].fetchFunction THEN FetchModes ELSE {"async"}
\* the values a fetch function can answer at once: only a prefetch uses them
FetchValuesOf(L) ==
  IF options[L].fetchFunction /\ options[L].prefetchAfter # 0 THEN Values ELSE {"v"}

StartGet(op, L, key, ttlArg) ==
  /\ nops < MaxOps
  /\ nops' = nops + 1
  /\ UNCHANGED <<options, now>>
  /\ \E mode \in FetchModesOf(L), fv \in FetchValuesOf(L) :
       \E r \in get(World, L, L, key, nops + 1, mode, fv) :
         /\ Apply(r.w)
         /\ calls' = [calls EXCEPT ![nops + 1] =
                        finish([NoCall EXCEPT !.op = op, !.level = L, !.key = key,
                                              !.ttl = ttlArg], r.out)]

CallGet(L, key) == StartGet("get", L, key, NoTtl)

CallGetOrSet(L, key, ttlArg) == StartGet("getOrSet", L, key, ttlArg)

\* decorators.ts 70-101 with firstArg = 1, no lastArg and no key builder: one
\* argument is the key itself, several arguments are the segments of an array key
buildCacheKey(args) == IF Len(args) = 1 THEN StrKey(args[1]) ELSE ArrKey(args)

\* decorators.ts 124-136: a call of a method wrapped by @CacheGet, whose cache is
\* registered as level L, up to the first await inside cache.get
CallCacheGet(L, args) == StartGet("CacheGet", L, buildCacheKey(args), NoTtl)

\* decorators.ts 142-144: the original method answered; its result is stored with
\* cache.set and returned
MethodReturn(c, value) ==
  /\ calls[c].pc = "method"
  /\ \E w \in set(World, calls[c].level, calls[c].key, value, NoTtl, TRUE) : Apply(w)
  /\ calls' = [calls EXCEPT ![c] = [@ EXCEPT !.pc = "done", !.res = Val(value)]]
  /\ UNCHANGED <<options, now, nops>>

\* decorators.ts 142, 145-147: the original method failed inside the try block;
\* the catch block invokes it again
MethodFail(c) ==
  /\ calls[c].pc = "method"
  /\ calls' = [calls EXCEPT ![c] = [@ EXCEPT !.pc = "recover", !.res = Failure,
                                             !.invoked = @ + 1]]
  /\ UNCHANGED <<options, entries, stats, pendingFetches, fetches, now, nops>>

\* decorators.ts 147: the invocation of the catch block answers; its outcome is
\* the outcome of the call and nothing is stored
RecoverReturn(c, value) ==
  /\ calls[c].pc = "recover"
  /\ calls' = [calls EXCEPT ![c] = [@ EXCEPT !.pc = "done", !.res = Val(value)]]
  /\ UNCHANGED <<options, entries, stats, pendingFetches, fetches, now, nops>>

RecoverFail(c) ==
  /\ calls[c].pc = "recover"
  /\ calls' = [calls EXCEPT ![c] = [@ EXCEPT !.pc = "done", !.res = Failure]]
  /\ UNCHANGED <<options, entries, stats, pendingFetches, fetches, now, nops>>

\* faulty variant: an expired entry is deleted, as get does
getIfAvailableDeleting(w, L, key) ==
  LET keyStr == keyToString(key)
      es == w.entries[L]
  IN IF ~Has(es, keyStr) THEN [w |-> w, res |-> Undefined]
     ELSE IF isExpired(EntryOf(es, keyStr))
     THEN [w |-> removeKeys(w, L, {keyStr}), res |-> Undefined]
     ELSE LET i == IndexOf(es, keyStr)
              w1 == [w EXCEPT !.entries[L][i].lastAccessedAt = now]
          IN [w |-> w1,
              res |-> IF isPromise(es[i].value) THEN Undefined ELSE Val(es[i].value)]

\* lines 123-141: getIfAvailable runs to its end at once; an expired entry stays
\* in the map, no counter moves
getIfAvailable(w, L, key) ==
  LET keyStr == keyToString(key)
      es == w.entries[L]
  IN IF ~Has(es, keyStr) \/ isExpired(EntryOf(es, keyStr))
     THEN [w |-> w, res |-> Undefined]
     ELSE LET i == IndexOf(es, keyStr)
              w1 == [w EXCEPT !.entries[L][i].lastAccessedAt = now]
          IN [w |-> w1,
              res |-> IF isPromise(es[i].value) THEN Undefined ELSE Val(es[i].value)]

CallGetIfAvailable(L, key) ==
  /\ nops < MaxOps
  /\ nops' = nops + 1
  /\ UNCHANGED <<options, now>>
  /\ LET r == getIfAvailable(World, L, key)
     IN /\ Apply(r.w)
        /\ calls' = [calls EXCEPT ![nops + 1] =
                       [NoCall EXCEPT !.op = "getIfAvailable", !.level = L, !.key = key,
                                      !.pc = "done", !.res = r.res]]

\* faulty variant: the ttl handed to getOrSet is not passed on to set
GetOrSetProduceDefaultTtl(c, value) ==
  /\ calls[c].pc = "produce"
  /\ \E w \in set(World, calls[c].level, calls[c].key, value, NoTtl, TRUE) : Apply(w)
  /\ calls' = [calls EXCEPT ![c] = [NoCall EXCEPT !.pc = "done", !.res = Val(value)]]
  /\ UNCHANGED <<options, now, nops>>

\* lines 154-156 of getOrSet: the producer answered, set is called (not awaited)
GetOrSetProduce(c, value) ==
  /\ calls[c].pc = "produce"
  /\ \E w \in set(World, calls[c].level, calls[c].key, value, calls[c].ttl, TRUE) : Apply(w)
  /\ calls' = [calls EXCEPT ![c] = [NoCall EXCEPT !.pc = "done", !.res = Val(value)]]
  /\ UNCHANGED <<options, now, nops>>

\* the producer failed: getOrSet rejects
GetOrSetFail(c) ==
  /\ calls[c].pc = "produce"
  /\ calls' = [calls EXCEPT ![c] = [NoCall EXCEPT !.pc = "done", !.res = Failure]]
  /\ UNCHANGED <<options, entries, stats, pendingFetches, fetches, now, nops>>

\* faulty variant: the value found at the next level is written back to it
storeFromNextForwarding(w, L, key, value) == set(w, L, key, value, NoTtl, TRUE)

\* lines 342-343: the value of the next level is stored in this level only
storeFromNext(w, L, key, value) == set(w, L, key, value, NoTtl, FALSE)

\* faulty variant: the fetched value is stored in this level only
storeFetchedLocally(w, L, key, value) == set(w, L, key, value, NoTtl, FALSE)

\* line 357: the fetched value is stored with the default forwardToNext
storeFetched(w, L, key, value) == set(w, L, key, value, NoTtl, TRUE)

\* faulty variant: the resumed miss stores what the next level holds by now
ContinueRereading(c) ==
  /\ calls[c].pc = "return"
  /\ calls[c].res.kind = "value"
  /\ LET call == calls[c]
         L == call.cur
         next == entries[options[L].nextLevelCache]
         value == IF Has(next, keyToString(call.key))
                  THEN EntryOf(next, keyToString(call.key)).value ELSE call.res.value
     IN /\ \E w \in storeFromNext(World, L, call.key, value) : Apply(w)
        /\ calls' = [calls EXCEPT ![c] = finish(call, settle(call.level, L, Val(value)))]
  /\ UNCHANGED <<options, now, nops>>

\* lines 340-346 and on: the next level's get has settled, handleCacheMiss resumes
Continue(c) ==
  /\ calls[c].pc = "return"
  /\ LET call == calls[c]
         L == call.cur
     IN CASE call.res.kind = "value" ->
               /\ \E w \in storeFromNext(World, L, call.key, call.res.value) : Apply(w)
               /\ calls' = [calls EXCEPT ![c] = finish(call, settle(call.level, L, call.res))]
          [] call.res.kind = "undefined" ->
               \E mode \in FetchModes :
                 \E r \in fetchStep(World, call.level, L, call.key, c, mode) :
                   /\ Apply(r.w)
                   /\ calls' = [calls EXCEPT ![c] = finish(call, r.out)]
          [] OTHER ->
               /\ calls' = [calls EXCEPT ![c] = finish(call, settle(call.level, L, call.res))]
               /\ UNCHANGED <<entries, stats, pendingFetches, fetches>>
  /\ UNCHANGED <<options, now, nops>>

\* lines 359-362: finally, delete the key from the pending map
cleanup(w, L, keyStr) == [w EXCEPT !.pendingFetches[L][keyStr] = 0]

\* lines 356-362: the awaited fetch promise resolved
FetchResolve(c, value) ==
  /\ calls[c].pc = "awaitFetch"
  /\ fetches[c].status = "pending"
  /\ LET call == calls[c]
         L == call.cur
         w0 == [World EXCEPT !.fetches[c] = settled(@, "resolved", value)]
     IN /\ \E w \in storeFetched(w0, L, call.key, value) :
             Apply(cleanup(w, L, keyToString(call.key)))
        /\ calls' = [calls EXCEPT ![c] = finish(call, settle(call.level, L, Val(value)))]
  /\ UNCHANGED <<options, now, nops>>

\* faulty variant: the rejection is swallowed, the caller gets undefined
FetchRejectSwallowed(c) ==
  /\ calls[c].pc = "awaitFetch"
  /\ fetches[c].status = "pending"
  /\ LET call == calls[c]
         L == call.cur
     IN /\ Apply(cleanup([World EXCEPT !.fetches[c] = settled(@, "rejected", "")], L,
                         keyToString(call.key)))
        /\ calls' = [calls EXCEPT ![c] = finish(call, settle(call.level, L, Undefined))]
  /\ UNCHANGED <<options, now, nops>>

\* lines 356, 359-362: the awaited fetch promise rejected
FetchReject(c) ==
  /\ calls[c].pc = "awaitFetch"
  /\ fetches[c].status = "pending"
  /\ LET call == calls[c]
         L == call.cur
     IN /\ Apply(cleanup([World EXCEPT !.fetches[c] = settled(@, "rejected", "")], L,
                         keyToString(call.key)))
        /\ calls' = [calls EXCEPT ![c] = finish(call, settle(call.level, L, Failure))]
  /\ UNCHANGED <<options, now, nops>>

\* lines 334-336: a caller that was handed the pending promise gets its outcome.
\* Its reaction was registered after the first caller's await, so it runs after
\* the first caller's continuation (FetchResolve / FetchReject).
Released(c) ==
  /\ calls[c].pc = "attached"
  /\ fetches[calls[c].fetch].status \in {"resolved", "rejected"}
  /\ LET call == calls[c]
         f == fetches[call.fetch]
         r == IF f.status = "resolved" THEN Val(f.value) ELSE Failure
     IN calls' = [calls EXCEPT ![c] = finish(call, settle(call.level, call.cur, r))]
  /\ UNCHANGED <<options, entries, stats, pendingFetches, fetches, now, nops>>

\* faulty variant: the refreshed value is dropped
PrefetchResolveDropped(c, value) ==
  /\ fetches[c].kind = "prefetch"
  /\ fetches[c].status = "pending"
  /\ fetches' = [fetches EXCEPT ![c] = settled(@, "resolved", value)]
  /\ UNCHANGED <<options, entries, stats, pendingFetches, calls, now, nops>>

\* faulty variant: the refreshed entry takes over the TTL of the entry it replaces
PrefetchResolveKeepingTtl(c, value) ==
  /\ fetches[c].kind = "prefetch"
  /\ fetches[c].status = "pending"
  /\ LET w0 == [World EXCEPT !.fetches[c] = settled(@, "resolved", value)]
         es == entries[fetches[c].level]
         keyStr == keyToString(fetches[c].key)
         ttlArg == IF Has(es, keyStr) /\ EntryOf(es, keyStr).ttl # 0
                   THEN <<EntryOf(es, keyStr).ttl>> ELSE NoTtl
     IN \E w \in set(w0, fetches[c].level, fetches[c].key, value, ttlArg, TRUE) : Apply(w)
  /\ UNCHANGED <<options, calls, now, nops>>

\* lines 99-102: the background fetch resolved
PrefetchResolve(c, value) ==
  /\ fetches[c].kind = "prefetch"
  /\ fetches[c].status = "pending"
  /\ LET w0 == [World EXCEPT !.fetches[c] = settled(@, "resolved", value)]
     IN \E w \in set(w0, fetches[c].level, fetches[c].key, value, NoTtl, TRUE) : Apply(w)
  /\ UNCHANGED <<options, calls, now, nops>>

\* lines 103-105: the background fetch rejected; the flag of the entry object the
\* get had in hand is cleared (it may no longer be the one in the map)
PrefetchReject(c) ==
  /\ fetches[c].kind = "prefetch"
  /\ fetches[c].status = "pending"
  /\ LET L == fetches[c].level
         clear(e) == IF e.isPrefetching = c THEN [e EXCEPT !.isPrefetching = 0] ELSE e
     IN entries' = [entries EXCEPT ![L] = [i \in 1..Len(@) |-> clear(@[i])]]
  /\ fetches' = [fetches EXCEPT ![c] = settled(@, "rejected", "")]
  /\ UNCHANGED <<options, stats, pendingFetches, calls, now, nops>>

CallSet(L, key, value, ttlArg, forwardToNext) ==
  /\ nops < MaxOps
  /\ nops' = nops + 1
  /\ UNCHANGED <<options, calls, now>>
  /\ \E w \in set(World, L, key, value, ttlArg, forwardToNext) : Apply(w)

CallInvalidate(L, key, forwardToNext) ==
  /\ nops < MaxOps
  /\ nops' = nops + 1
  /\ UNCHANGED <<options, calls, now>>
  /\ Apply(invalidate(World, L, key, forwardToNext))

CallInvalidateByPrefix(L, keyPrefix, forwardToNext) ==
  /\ nops < MaxOps
  /\ nops' = nops + 1
  /\ UNCHANGED <<options, calls, now>>
  /\ Apply(invalidateByPrefix(World, L, keyPrefix, forwardToNext))

CallInvalidateAll(L, forwardToNext) ==
  /\ nops < MaxOps
  /\ nops' = nops + 1
  /\ UNCHANGED <<options, calls, now>>
  /\ Apply(invalidateAll(World, L, forwardToNext))

\* set of a new key on a cache that still has room, before the counted operations
Fill(L, key, value) ==
  /\ nops = 0
  /\ ~Has(entries[L], keyToString(key))
  /\ Len(entries[L]) < options[L].maxSize
  /\ UNCHANGED <<options, calls, now, nops>>
  /\ \E w \in set(World, L, key, value, NoTtl, TRUE) : Apply(w)

\* the time source moves on
Tick ==
  /\ now < MaxTime
  /\ now' = now + 1
  /\ UNCHANGED <<options, entries, stats, pendingFetches, fetches, calls, nops>>

\* ---------------------------------------------------------------- next-state relations
Gets == \E L \in Levels, key \in CacheKeys : CallGet(L, key)

GetOrSets ==
  \/ \E L \in Levels, key \in CacheKeys, ttlArg \in TtlArgs : CallGetOrSet(L, key, ttlArg)
  \/ \E c \in CallIds, value \in Values : GetOrSetProduce(c, value)
  \/ \E c \in CallIds : GetOrSetFail(c)

Fetching ==
  \/ \E c \in CallIds, value \in Values : FetchResolve(c, value)
  \/ \E c \in CallIds : FetchReject(c)
  \/ \E c \in CallIds : Released(c)

Prefetching ==
  \/ \E c \in CallIds, value \in Values : PrefetchResolve(c, value)
  \/ \E c \in CallIds : PrefetchReject(c)

Writes ==
  \/ \E L \in Levels, key \in CacheKeys, value \in Values, ttlArg \in TtlArgs, f \in BOOLEAN :
       CallSet(L, key, value, ttlArg, f)
  \/ \E L \in Levels, key \in CacheKeys, f \in BOOLEAN : CallInvalidate(L, key, f)
  \/ \E L \in Levels, keyPrefix \in Prefixes, f \in BOOLEAN : CallInvalidateByPrefix(L, keyPrefix, f)
  \/ \E L \in Levels, f \in BOOLEAN : CallInvalidateAll(L, f)

Resumes == \E c \in CallIds : Continue(c)

\* ---------------------------------------------------------------- specifications
\* a chain of two caches; only the first has a fetch function. No TTL is
\* configured and no level can hold two entries and evict, so the clock plays no part
ChainConfigs ==
  {<<Opt(1, 0, 0, "lru", TRUE, 0, 2), Opt(2, 0, 0, "lru", FALSE, 0, 0)>>}

Init == InitWith(ChainConfigs)
Next == Gets \/ Fetching \/ Resumes \/ Writes
Spec == Init /\ [][Next]_vars

\* single caches: a count limit with expiry and a byte cap below the larger value,
\* a count limit with a fetch function, a byte cap that no two values fit
CapConfigs ==
  {<<Opt(1, 4, 1, "filo", FALSE, 0, 0)>>,
   <<Opt(1, 0, 0, "random", TRUE, 0, 0)>>,
   <<Opt(2, 4, 0, "random", FALSE, 0, 0)>>}

InitCap == InitWith(CapConfigs)
NextCap == Gets \/ GetOrSets \/ Fetching \/ Writes \/ Tick
SpecCap == InitCap /\ [][NextCap]_vars

\* one cache with a fetch function, a TTL and a prefetch threshold
FetchConfigs == {<<Opt(1, 0, 2, "lru", TRUE, 1, 0)>>}

InitFetch == InitWith(FetchConfigs)
NextFetch == Gets \/ Fetching \/ Prefetching \/ Writes \/ Tick
SpecFetch == InitFetch /\ [][NextFetch]_vars

\* a chain of three caches without fetch functions, TTLs or a level where the
\* eviction order matters
Chain3Configs ==
  {<<Opt(1, 0, 0, "lru", FALSE, 0, 2), Opt(2, 0, 0, "filo", FALSE, 0, 3),
     Opt(2, 0, 0, "lru", FALSE, 0, 0)>>}

InitChain3 == InitWith(Chain3Configs)
NextChain3 == Gets \/ Resumes \/ Writes
SpecChain3 == InitChain3 /\ [][NextChain3]_vars

\* the same chain under set and invalidate* calls alone
NextCascade == Writes
SpecCascade == InitChain3 /\ [][NextCascade]_vars

\* one cache of capacity 3 per eviction policy, filled and then used with four keys
LruConfigs == {<<Opt(3, 0, 0, "lru", FALSE, 0, 0)>>}
FiloConfigs == {<<Opt(3, 0, 0, "filo", FALSE, 0, 0)>>}
RandomConfigs == {<<Opt(3, 0, 0, "random", FALSE, 0, 0)>>}

\* the keys are interchangeable: the cache is filled in the order k1, k2, k3,
\* under a strictly increasing clock (the i-th key at time i - 1)
FillOrder == <<K1, K2, K3>>
Fills ==
  \E i \in 1..Len(FillOrder), value \in EvictValues :
    i = Len(entries[1]) + 1 /\ now = Len(entries[1]) /\ Fill(1, FillOrder[i], value)
EvictGets == \E key \in EvictKeys : CallGet(1, key)
EvictSets == \E key \in EvictKeys, value \in EvictValues : CallSet(1, key, value, NoTtl, TRUE)

NextEvict == Fills \/ EvictGets \/ EvictSets \/ Tick

InitLru == InitWith(LruConfigs)
SpecLru == InitLru /\ [][NextEvict]_vars

InitFilo == InitWith(FiloConfigs)
SpecFilo == InitFilo /\ [][NextEvict]_vars

InitRandom == InitWith(RandomConfigs)
SpecRandom == InitRandom /\ [][NextEvict]_vars

\* single caches with and without a default TTL, written with and without a
\* TTL of the entry's own
TtlConfigs == {<<Opt(2, 0, 1, "lru", FALSE, 0, 0)>>, <<Opt(2, 0, 0, "lru", FALSE, 0, 0)>>}
PerEntryTtls == {NoTtl, <<2>>}
TtlSets ==
  \E key \in CacheKeys, value \in Values, ttlArg \in PerEntryTtls :
    CallSet(1, key, value, ttlArg, TRUE)

InitTtl == InitWith(TtlConfigs)
NextTtl == Gets \/ TtlSets \/ Tick
SpecTtl == InitTtl /\ [][NextTtl]_vars

\* a chain of two caches; the first has a TTL, a prefetch threshold and a fetch
\* function. Values and futures are stored, read with get and with getIfAvailable
AvailConfigs == {<<Opt(2, 0, 2, "lru", TRUE, 1, 2), Opt(2, 0, 0, "lru", FALSE, 0, 0)>>}
AvailValues == {"v"} \cup Futures
AvailSets == \E key \in CacheKeys, value \in AvailValues : CallSet(1, key, value, NoTtl, TRUE)
AvailGets == \E key \in CacheKeys : CallGet(1, key)
GetIfAvailables == \E L \in Levels, key \in CacheKeys : CallGetIfAvailable(L, key)

InitAvail == InitWith(AvailConfigs)
NextAvail == AvailSets \/ AvailGets \/ GetIfAvailables \/ Tick
SpecAvail == InitAvail /\ [][NextAvail]_vars

\* chains of two caches, the first with a default TTL, the second with or without a
\* fetch function: getOrSet on the first level with and without a ttl of its own.
\* The clock stands still: no entry expires between the calls
GetOrSetConfigs ==
  {<<Opt(2, 0, 1, "lru", FALSE, 0, 2), Opt(2, 0, 0, "lru", FALSE, 0, 0)>>,
   <<Opt(2, 0, 1, "lru", FALSE, 0, 2), Opt(2, 0, 0, "lru", TRUE, 0, 0)>>}
GivenTtls == {NoTtl, <<2>>}
ProducedValues == {"p"}
GetOrSetCalls ==
  \/ \E key \in CacheKeys, ttlArg \in GivenTtls : CallGetOrSet(1, key, ttlArg)
  \/ \E c \in CallIds, value \in ProducedValues : GetOrSetProduce(c, value)
  \/ \E c \in CallIds : GetOrSetFail(c)
NextLevelSets == \E key \in CacheKeys : CallSet(2, key, "v", NoTtl, TRUE)

InitGetOrSet == InitWith(GetOrSetConfigs)
NextGetOrSet == GetOrSetCalls \/ NextLevelSets \/ Resumes \/ Fetching
SpecGetOrSet == InitGetOrSet /\ [][NextGetOrSet]_vars

\* a chain of two caches, the second smaller than the first: the first level is
\* filled, which evicts on the second, then read and invalidated
InvConfigs == {<<Opt(3, 0, 0, "lru", FALSE, 0, 2), Opt(2, 0, 0, "lru", FALSE, 0, 0)>>}
InvFillOrder == <<KeyA, KeyAB, KeyAb>>
InvFills == \E i \in 1..Len(InvFillOrder) : i = Len(entries[1]) + 1 /\ Fill(1, InvFillOrder[i], "v")
InvGets == \E key \in InvKeys : CallGet(1, key)
Invalidations ==
  \/ \E L \in Levels, key \in InvKeys, f \in BOOLEAN : CallInvalidate(L, key, f)
  \/ \E L \in Levels, keyPrefix \in InvPrefixes, f \in BOOLEAN :
       CallInvalidateByPrefix(L, keyPrefix, f)
  \/ \E L \in Levels, f \in BOOLEAN : CallInvalidateAll(L, f)

InitInvalidate == InitWith(InvConfigs)
NextInvalidate == InvFills \/ InvGets \/ Resumes \/ Invalidations
SpecInvalidate == InitInvalidate /\ [][NextInvalidate]_vars

\* a chain of two caches that holds entries stored under single-string keys only
StringKeyConfigs == {<<Opt(3, 0, 0, "lru", FALSE, 0, 2), Opt(3, 0, 0, "lru", FALSE, 0, 0)>>}
StringSets ==
  \E L \in Levels, key \in StringKeys, f \in BOOLEAN : CallSet(L, key, "v", NoTtl, f)
PrefixInvalidations ==
  \E L \in Levels, keyPrefix \in InvPrefixes, f \in BOOLEAN :
    CallInvalidateByPrefix(L, keyPrefix, f)

InitStringKeys == InitWith(StringKeyConfigs)
NextStringKeys == StringSets \/ PrefixInvalidations
SpecStringKeys == InitStringKeys /\ [][NextStringKeys]_vars

\* one cache, addressed through the array ["a", "b"], the string "a::b" that equals
\* its joined form, and the string "ab" that does not
AliasConfigs == {<<Opt(3, 0, 0, "lru", FALSE, 0, 0)>>}
AliasKeys == {KeyAB, KeySep, KeyAb}
AliasSets == \E key \in AliasKeys, value \in Values : CallSet(1, key, value, NoTtl, TRUE)
AliasGets == \E key \in AliasKeys : CallGet(1, key)
AliasAvailables == \E key \in AliasKeys : CallGetIfAvailable(1, key)
AliasInvalidates == \E key \in AliasKeys : CallInvalidate(1, key, TRUE)

InitAlias == InitWith(AliasConfigs)
NextAlias == AliasSets \/ AliasGets \/ AliasAvailables \/ AliasInvalidates
SpecAlias == InitAlias /\ [][NextAlias]_vars

\* no cache at the start: constructor calls with sizes, TTLs, thresholds and policy
\* names of all kinds, then sets, gets and time steps on the cache that was built
ConstructOptions ==
  {Opt(maxSize, 0, ttl, policy, TRUE, prefetchAfter, 0) :
     maxSize \in {-1, 0, 1, 2}, ttl \in 0..2, prefetchAfter \in 0..2,
     policy \in {"lru", "fifo"}}
Constructs == \E opt \in ConstructOptions : Construct(opt)
BuiltSets == \E L \in Levels, key \in CacheKeys : CallSet(L, key, "v", NoTtl, TRUE)

InitConstruct == InitWith({<<>>})
NextConstruct == Constructs \/ BuiltSets \/ Gets \/ Tick
SpecConstruct == InitConstruct /\ [][NextConstruct]_vars

\* one registered cache, with or without a fetch function, used by a method wrapped
\* by @CacheGet that is called with one or two arguments; the method answers "m"
DecoratorConfigs ==
  {<<Opt(2, 0, 0, "lru", FALSE, 0, 0)>>, <<Opt(2, 0, 0, "lru", TRUE, 0, 0)>>}
MethodArgs == {<<(<<"a">>)>>, <<(<<"a">>), (<<"b">>)>>}
MethodValues == {"m"}
DecoratedCalls == \E args \in MethodArgs : CallCacheGet(1, args)
MethodOutcomes ==
  \/ \E c \in CallIds, value \in MethodValues : MethodReturn(c, value)
  \/ \E c \in CallIds : MethodFail(c)
  \/ \E c \in CallIds, value \in MethodValues : RecoverReturn(c, value)
  \/ \E c \in CallIds : RecoverFail(c)
DecoratorInvalidates == \E key \in CacheKeys : CallInvalidate(1, key, TRUE)

InitDecorator == InitWith(DecoratorConfigs)
NextDecorator == DecoratedCalls \/ MethodOutcomes \/ Fetching \/ DecoratorInvalidates
SpecDecorator == InitDecorator /\ [][NextDecorator]_vars

\* single caches with and without a prefetch threshold, a fetch function and a
\* default TTL; entries are stored with the default TTL or with one of their own
EligibleConfigs ==
  {<<Opt(2, 0, ttl, "lru", fetchFunction, prefetchAfter, 0)>> :
     ttl \in {0, 2}, fetchFunction \in BOOLEAN, prefetchAfter \in {0, 1}}
EligibleSets == \E ttlArg \in PerEntryTtls : CallSet(1, KeyA, "v", ttlArg, TRUE)
EligibleGets == CallGet(1, KeyA)
EligibleAvailables == CallGetIfAvailable(1, KeyA)

InitEligible == InitWith(EligibleConfigs)
NextEligible == EligibleSets \/ EligibleGets \/ EligibleAvailables \/ Prefetching \/ Tick
SpecEligible == InitEligible /\ [][NextEligible]_vars

\* single caches under set, get, invalidate* and the clock: a count limit with
\* expiry and a byte cap, a count limit with a fetch function, a byte cap that no
\* two values fit
CountedConfigs ==
  {<<Opt(1, 4, 1, "filo", FALSE, 0, 0)>>,
   <<Opt(1, 0, 0, "lru", TRUE, 0, 0)>>,
   <<Opt(2, 4, 0, "random", FALSE, 0, 0)>>}

CountedSets == \E key \in CacheKeys, value \in Values : CallSet(1, key, value, NoTtl, TRUE)
CountedInvalidations ==
  \/ \E key \in CacheKeys : CallInvalidate(1, key, TRUE)
  \/ \E keyPrefix \in Prefixes : CallInvalidateByPrefix(1, keyPrefix, TRUE)
  \/ CallInvalidateAll(1, TRUE)

InitCounted == InitWith(CountedConfigs)
NextCounted == Gets \/ Fetching \/ CountedSets \/ CountedInvalidations \/ Tick
SpecCounted == InitCounted /\ [][NextCounted]_vars

\* byte-capped caches that never reach their entry limit: two small values fit the
\* cap of seven bytes, a small and a medium one do not, the large one alone does not
ByteConfigs == {<<Opt(3, 7, 0, policy, FALSE, 0, 0)>> : policy \in {"filo", "random"}}
ByteKeys == {K1, K2, K3}
ByteValues == {"v", "www", "wwwwww"}
ByteSets == \E key \in ByteKeys, value \in ByteValues : CallSet(1, key, value, NoTtl, TRUE)

InitBytes == InitWith(ByteConfigs)
NextBytes == ByteSets \/ Tick
SpecBytes == InitBytes /\ [][NextBytes]_vars

\* one full cache of one entry with a default TTL, a prefetch threshold and a fetch
\* function, written with and without a TTL of the entry's own
ReplaceConfigs == {<<Opt(1, 0, 3, "lru", TRUE, 1, 0)>>}
ReplaceSets ==
  \E key \in CacheKeys, value \in Values, ttlArg \in PerEntryTtls :
    CallSet(1, key, value, ttlArg, TRUE)

InitReplace == InitWith(ReplaceConfigs)
NextReplace == ReplaceSets \/ Gets \/ Prefetching \/ Tick
SpecReplace == InitReplace /\ [][NextReplace]_vars

\* LRU and FILO caches of one and two entries without byte cap, written and read
\* with three keys; the clock may stand still, so that all timestamps are equal
OrderedConfigs ==
  {<<Opt(maxSize, 0, 0, policy, FALSE, 0, 0)>> : maxSize \in {1, 2}, policy \in {"lru", "filo"}}
OrderedSets == \E key \in ByteKeys : CallSet(1, key, "v", NoTtl, TRUE)
OrderedGets == \E key \in ByteKeys : CallGet(1, key)

InitOrdered == InitWith(OrderedConfigs)
NextOrdered == OrderedSets \/ OrderedGets \/ Tick
SpecOrdered == InitOrdered /\ [][NextOrdered]_vars

\* one cache with a fetch function, a TTL and a prefetch threshold that is only
\* read and invalidated: no caller ever stores a value
InFlightConfigs == {<<Opt(2, 0, 3, "lru", TRUE, 1, 0)>>}
InFlightGets == CallGet(1, KeyA)
InFlightInvalidations ==
  \/ CallInvalidate(1, KeyA, TRUE)
  \/ CallInvalidateByPrefix(1, <<(<<"a">>)>>, TRUE)
  \/ CallInvalidateAll(1, TRUE)

InitInFlight == InitWith(InFlightConfigs)
NextInFlight == InFlightGets \/ Fetching \/ Prefetching \/ InFlightInvalidations \/ Tick
SpecInFlight == InitInFlight /\ [][NextInFlight]_vars

\* the chain of two caches with values put on the second level beforehand; the
\* callers then read and write on the first level only, every set is forwarded
LateFills == \E key \in CacheKeys : Fill(2, key, "v")
LateSets == \E key \in CacheKeys, value \in Values : CallSet(1, key, value, NoTtl, TRUE)
LateGets == \E key \in CacheKeys : CallGet(1, key)

NextLate == LateFills \/ LateGets \/ LateSets \/ Resumes \/ Fetching
SpecLate == Init /\ [][NextLate]_vars

\* one LRU cache of two entries with a TTL of one time unit, filled beforehand
\* with k1 and then k2, then read with getIfAvailable and written, with three keys
PeekConfigs == {<<Opt(2, 0, 1, "lru", FALSE, 0, 0)>>}
PeekFills == \E i \in 1..2 : i = Len(entries[1]) + 1 /\ Fill(1, FillOrder[i], "v")
PeekAvailables == \E key \in ByteKeys : CallGetIfAvailable(1, key)

InitPeek == InitWith(PeekConfigs)
NextPeek == PeekFills \/ PeekAvailables \/ OrderedSets \/ Tick
SpecPeek == InitPeek /\ [][NextPeek]_vars

\* ---------------------------------------------------------------- properties
\* the miss-resolution fetches in flight for a key of a level
PendingMiss(L, keyStr) ==
  {c \in CallIds : /\ fetches[c].kind = "miss" /\ fetches[c].status = "pending"
                   /\ fetches[c].level = L /\ keyToString(fetches[c].key) = keyStr}

\* every fetch-function invocation in flight for a key of a level
InFlight(L, keyStr) ==
  {c \in CallIds : /\ fetches[c].status = "pending"
                   /\ fetches[c].level = L /\ keyToString(fetches[c].key) = keyStr}

\* what a settled fetch promise delivers
Outcome(f) == IF f.status = "resolved" THEN Val(f.value) ELSE Failure

\* the levels a forwarding call issued on L reaches
RECURSIVE Chain(_)
Chain(L) == IF options[L].nextLevelCache = 0 THEN {L} ELSE {L} \cup Chain(options[L].nextLevelCache)

Holds(es, keyStr, value) == Has(es, keyStr) /\ EntryOf(es, keyStr).value = value

\* C1: in every state between operations each cache holds at most maxSize entries
C1_Capacity == \A L \in Levels : Len(entries[L]) <= options[L].maxSize

\* a count overflow has been evicted and the cache is full
C1_Witness ==
  \E L \in Levels : /\ options[L].maxSizeBytes = 0
                    /\ stats[L].evictions > 0
                    /\ Len(entries[L]) = options[L].maxSize

\* C2: in a cache with a fetch function and no next level, a get on an absent key
\* whose fetch is pending starts no second fetch but attaches to the pending one, at
\* most one miss fetch per key is in flight, and every caller of a fetch (the first
\* and the attached ones) receives the outcome of that one fetch
C2_Step ==
  /\ \A L \in Levels, key \in CacheKeys :
       (/\ options[L].nextLevelCache = 0
        /\ PendingMiss(L, keyToString(key)) # {}
        /\ (~Has(entries[L], keyToString(key)) \/ isExpired(EntryOf(entries[L], keyToString(key))))
        /\ CallGet(L, key))
       => /\ fetches' = fetches
          /\ calls'[nops + 1].pc = "attached"
          /\ calls'[nops + 1].fetch \in PendingMiss(L, keyToString(key))
  /\ \A c \in CallIds :
       /\ (calls[c].pc = "attached" /\ calls'[c].pc # "attached")
            => calls'[c].res = Outcome(fetches[calls[c].fetch])
       /\ (calls[c].pc = "awaitFetch" /\ calls'[c].pc # "awaitFetch")
            => calls'[c].res = Outcome(fetches'[c])

C2_OneFetch ==
  \A L \in Levels, k \in KeyStrs :
    options[L].nextLevelCache = 0 => Cardinality(PendingMiss(L, k)) <= 1

C3_OneFetchWithNextLevel ==
  \A L \in Levels, k \in KeyStrs :
    options[L].nextLevelCache # 0 => Cardinality(PendingMiss(L, k)) <= 1

\* C4: at most one invocation of the fetch function is in flight per key, miss
\* fetches and background refreshes counted together
C4_OneInFlight ==
  \A L \in Levels, k \in KeyStrs : Cardinality(InFlight(L, k)) <= 1

\* C5: a failing miss fetch delivers the failure to its first caller and to every
\* attached caller, creates no entry (entries and size stay as they are) and
\* starts no new fetch
C5_Step ==
  /\ \A c \in CallIds :
       (/\ fetches[c].kind = "miss" /\ fetches[c].status = "pending"
        /\ fetches'[c].status = "rejected")
       => /\ calls'[c].res = Failure
          /\ entries' = entries
          /\ \A L \in Levels : stats'[L].size = stats[L].size
          /\ \A d \in CallIds : fetches'[d].status = "pending" => fetches[d].status = "pending"
  /\ \A L \in Levels, key \in CacheKeys :
       (/\ nops < MaxOps
        /\ fetches'[nops + 1].kind = "miss" /\ fetches'[nops + 1].status = "thrown"
        /\ CallGet(L, key))
       => /\ calls'[nops + 1].res = Failure
          /\ ~Has(entries'[L], keyToString(key))
          /\ \A d \in CallIds : fetches'[d].status = "pending" => fetches[d].status = "pending"
  /\ \A a \in CallIds :
       (/\ calls[a].pc = "attached" /\ calls'[a].pc # "attached"
        /\ fetches[calls[a].fetch].status = "rejected")
       => calls'[a].res = Failure

C5_FetchFailure == [][C5_Step]_vars

\* one fetch failed; its first caller and an attached caller both got the failure
C5_Witness ==
  \E c, a \in CallIds :
    /\ c # a
    /\ fetches[c].kind = "miss" /\ fetches[c].status = "rejected"
    /\ calls[c].pc = "done" /\ calls[c].res = Failure
    /\ fetches[a].kind = "none"
    /\ calls[a].pc = "done" /\ calls[a].res = Failure
    /\ \A L \in Levels : entries[L] = <<>>

\* C6: the pending map holds a key exactly while a miss fetch of that key is
\* unresolved
C6_PendingExactly ==
  \A L \in Levels, k \in KeyStrs : (pendingFetches[L][k] # 0) <=> (PendingMiss(L, k) # {})

\* C7: with maxSizeBytes configured the estimated sizes of the stored entries sum
\* to at most maxSizeBytes, or the store is empty
C7_ByteCap ==
  \A L \in Levels :
    options[L].maxSizeBytes # 0 =>
      (SumBytes(entries[L]) <= options[L].maxSizeBytes \/ Len(entries[L]) = 0)

\* two keys fit the entry count, so the eviction seen was the byte loop's, and an
\* entry under the cap is stored
C7_Witness ==
  \E L \in Levels : /\ options[L].maxSizeBytes # 0
                    /\ options[L].maxSize >= Cardinality(KeyStrs)
                    /\ stats[L].evictions > 0
                    /\ Len(entries[L]) = 1

\* C8: when the next level's get returns a value, the resumed miss stores it in
\* this level, writes nothing to any other level, invokes no fetch function and
\* hands the same value on
C8_Step ==
  \A c \in CallIds :
    (calls[c].pc = "return" /\ calls[c].res.kind = "value" /\ calls'[c] # calls[c])
    => /\ Holds(entries'[calls[c].cur], keyToString(calls[c].key), calls[c].res.value)
       /\ \A l \in Levels \ {calls[c].cur} : entries'[l] = entries[l] /\ stats'[l] = stats[l]
       /\ fetches' = fetches
       /\ pendingFetches' = pendingFetches
       /\ calls'[c].res = calls[c].res

C9_Step ==
  \A c \in CallIds :
    (fetches[c].kind = "miss" /\ fetches[c].status = "pending" /\ fetches'[c].status = "resolved")
    => /\ \A l \in Chain(fetches[c].level) :
            Holds(entries'[l], keyToString(fetches[c].key), fetches'[c].value)
       /\ calls'[c].res = Val(fetches'[c].value)

C9_SameKey ==
  \A c \in CallIds :
    (fetches[c].kind = "miss" /\ fetches[c].status = "pending")
    => /\ calls[c].pc = "awaitFetch"
       /\ fetches[c].key = calls[c].key
       /\ fetches[c].level = calls[c].cur

C9_FetchedStored == [](C9_SameKey) /\ [][C9_Step]_vars

\* no level held the key, the fetch of the first level resolved: the get has
\* returned the value and both levels hold it
C9_Witness ==
  \E c \in CallIds, key \in CacheKeys :
    /\ fetches[c].kind = "miss" /\ fetches[c].status = "resolved"
    /\ calls[c].pc = "done" /\ calls[c].res = Val(fetches[c].value)
    /\ stats[1].misses > 0 /\ stats[2].misses > 0
    /\ \A L \in Levels : Holds(entries[L], keyToString(key), fetches[c].value)

\* the levels other than the given ones keep their entries and statistics
Untouched(Ls) == \A l \in Levels \ Ls : entries'[l] = entries[l] /\ stats'[l] = stats[l]

\* C10: with forwardToNext = TRUE set, invalidate, invalidateByPrefix and
\* invalidateAll take effect in the level called and in every level below it;
\* with forwardToNext = FALSE no other level changes.
\* (P \/ ~A is A => P, with the cheaper side first.)
C10_Step ==
  /\ \A L \in Levels, key \in CacheKeys, value \in Values, ttlArg \in TtlArgs :
       /\ \/ /\ \A l \in Chain(L) : Holds(entries'[l], keyToString(key), value)
             /\ Untouched(Chain(L))
          \/ ~CallSet(L, key, value, ttlArg, TRUE)
       /\ Untouched({L}) \/ ~CallSet(L, key, value, ttlArg, FALSE)
  /\ \A L \in Levels, key \in CacheKeys :
       /\ \/ /\ \A l \in Chain(L) : ~Has(entries'[l], keyToString(key))
             /\ Untouched(Chain(L))
          \/ ~CallInvalidate(L, key, TRUE)
       /\ Untouched({L}) \/ ~CallInvalidate(L, key, FALSE)
  /\ \A L \in Levels, keyPrefix \in Prefixes :
       /\ \/ /\ \A l \in Chain(L) : \A i \in 1..Len(entries'[l]) :
                  ~keyStartsWith(split(entries'[l][i].key), keyPrefix)
             /\ Untouched(Chain(L))
          \/ ~CallInvalidateByPrefix(L, keyPrefix, TRUE)
       /\ Untouched({L}) \/ ~CallInvalidateByPrefix(L, keyPrefix, FALSE)
  /\ \A L \in Levels :
       /\ \/ /\ \A l \in Chain(L) : entries'[l] = <<>>
             /\ Untouched(Chain(L))
          \/ ~CallInvalidateAll(L, TRUE)
       /\ Untouched({L}) \/ ~CallInvalidateAll(L, FALSE)

C10_Cascade == [][C10_Step]_vars

\* a forwarding set on the first level put the key in all three levels, and a
\* forwarding invalidate on the second level then removed it from the lower two
C10_Witness ==
  \E key \in CacheKeys :
    /\ Cardinality(Levels) = 3
    /\ nops = 2
    /\ \A L \in Levels : stats[L].hits + stats[L].misses = 0
    /\ Has(entries[1], keyToString(key))
    /\ ~Has(entries[2], keyToString(key)) /\ ~Has(entries[3], keyToString(key))
    /\ Len(entries[2]) + Len(entries[3]) = 0

\* this step is the synchronous run of a new get call
GetStep == nops < MaxOps /\ nops' = nops + 1 /\ calls'[nops + 1] # calls[nops + 1]

\* this step is a set or invalidate* call
WriteStep == nops' = nops + 1 /\ calls' = calls

\* the keys of an entry map
KeysOf(es) == {es[i].key : i \in 1..Len(es)}

\* a set of a new key on a full cache of the given policy, with no byte cap
Overflows(L, key, policy) ==
  /\ options[L].evictionPolicy = policy
  /\ options[L].maxSizeBytes = 0
  /\ ~Has(entries[L], keyToString(key))
  /\ Len(entries[L]) = options[L].maxSize

\* C11: (strictly increasing clock: the lastAccessedAt stamps differ) an
\* overflowing set on an LRU cache evicts exactly the entry with the smallest
\* lastAccessedAt and keeps the others; a get hit sets lastAccessedAt to now
C11_Step ==
  /\ \A L \in Levels, key \in EvictKeys, value \in EvictValues :
       (/\ Overflows(L, key, "lru")
        /\ \A i, j \in 1..Len(entries[L]) :
             i # j => entries[L][i].lastAccessedAt # entries[L][j].lastAccessedAt
        /\ CallSet(L, key, value, NoTtl, TRUE))
       => \E i \in 1..Len(entries[L]) :
            /\ \A j \in 1..Len(entries[L]) :
                 entries[L][i].lastAccessedAt <= entries[L][j].lastAccessedAt
            /\ KeysOf(entries'[L]) = (KeysOf(entries[L]) \ {entries[L][i].key}) \cup {keyToString(key)}
            /\ \A j \in 1..Len(entries[L]) : j # i => entries[L][j] \in Range(entries'[L])
            /\ stats'[L].evictions = stats[L].evictions + 1
  /\ \A L \in Levels, key \in EvictKeys :
       (/\ Has(entries[L], keyToString(key))
        /\ ~isExpired(EntryOf(entries[L], keyToString(key)))
        /\ nops < MaxOps
        /\ calls'[nops + 1].pc = "done"
        /\ CallGet(L, key))
       => /\ Has(entries'[L], keyToString(key))
          /\ EntryOf(entries'[L], keyToString(key)).lastAccessedAt = now

C11_LRU == [][C11_Step]_vars

\* k1, k2, k3 were inserted, k1 was read, k4 was inserted: k2 is gone
C11_Witness ==
  /\ options[1].evictionPolicy = "lru"
  /\ nops = 2
  /\ stats[1].evictions = 1 /\ stats[1].hits = 1
  /\ KeysOf(entries[1]) = {keyToString(K1), keyToString(K3), keyToString(K4)}
  /\ EntryOf(entries[1], keyToString(K1)).lastAccessedAt > 0

\* C12: an overflowing set on a FILO cache evicts exactly one entry, one whose
\* createdAt is the smallest, and keeps the others; a get hit leaves createdAt alone,
\* so reads have no effect on the order
C12_Step ==
  /\ \A L \in Levels, key \in EvictKeys, value \in EvictValues :
       (/\ Overflows(L, key, "filo")
        /\ CallSet(L, key, value, NoTtl, TRUE))
       => \E i \in 1..Len(entries[L]) :
            /\ \A j \in 1..Len(entries[L]) : entries[L][i].createdAt <= entries[L][j].createdAt
            /\ KeysOf(entries'[L]) = (KeysOf(entries[L]) \ {entries[L][i].key}) \cup {keyToString(key)}
            /\ \A j \in 1..Len(entries[L]) : j # i => entries[L][j] \in Range(entries'[L])
            /\ stats'[L].evictions = stats[L].evictions + 1
  /\ \A L \in Levels, key \in EvictKeys :
       (/\ Has(entries[L], keyToString(key))
        /\ ~isExpired(EntryOf(entries[L], keyToString(key)))
        /\ nops < MaxOps
        /\ calls'[nops + 1].pc = "done"
        /\ CallGet(L, key))
       => /\ Has(entries'[L], keyToString(key))
          /\ EntryOf(entries'[L], keyToString(key)).createdAt
               = EntryOf(entries[L], keyToString(key)).createdAt

C12_FILO == [][C12_Step]_vars

\* k1, k2, k3 were inserted, k1 was read, k4 was inserted: k1 is gone
C12_Witness ==
  /\ options[1].evictionPolicy = "filo"
  /\ nops = 2
  /\ stats[1].evictions = 1 /\ stats[1].hits = 1
  /\ KeysOf(entries[1]) = {keyToString(K2), keyToString(K3), keyToString(K4)}
  /\ \A i \in 1..Len(entries[1]) : entries[1][i].lastAccessedAt = entries[1][i].createdAt

\* C13: an overflowing set on a Random cache removes exactly one key (count -
\* maxSize), a key of the store or the key just written, keeps every other entry,
\* leaves exactly maxSize entries and counts exactly one eviction
C13_Step ==
  \A L \in Levels, key \in EvictKeys, value \in EvictValues :
    (/\ Overflows(L, key, "random")
     /\ CallSet(L, key, value, NoTtl, TRUE))
    => LET before == KeysOf(entries[L]) \cup {keyToString(key)}
           removed == before \ KeysOf(entries'[L])
       IN /\ KeysOf(entries'[L]) \subseteq before
          /\ Cardinality(removed) = Cardinality(before) - options[L].maxSize
          /\ Len(entries'[L]) = options[L].maxSize
          /\ stats'[L].size = options[L].maxSize
          /\ stats'[L].evictions = stats[L].evictions + Cardinality(removed)
          /\ \A j \in 1..Len(entries[L]) :
               entries[L][j].key \notin removed => entries[L][j] \in Range(entries'[L])

C13_Random == [][C13_Step]_vars

\* one counted operation, one eviction, and k1, k2, k3 are all still there: the
\* set of a fourth key drew the key it had just written
C13_Witness ==
  /\ options[1].evictionPolicy = "random"
  /\ nops = 1
  /\ stats[1].evictions = 1
  /\ KeysOf(entries[1]) = {keyToString(K1), keyToString(K2), keyToString(K3)}

\* C14: a set gives the entry the TTL passed to it, else the default of the cache;
\* a get of an entry without TTL, or of age at most its TTL, returns the value and
\* keeps the entry; a get of an entry older than its TTL deletes it and is a miss
C14_Step ==
  /\ \A L \in Levels, key \in CacheKeys, value \in Values, ttlArg \in PerEntryTtls :
       (WriteStep /\ CallSet(L, key, value, ttlArg, TRUE))
       => /\ Has(entries'[L], keyToString(key))
          /\ EntryOf(entries'[L], keyToString(key)).ttl
               = (IF ttlArg # NoTtl THEN ttlArg[1] ELSE options[L].ttl)
  /\ \A L \in Levels, key \in CacheKeys :
       (Has(entries[L], keyToString(key)) /\ GetStep /\ CallGet(L, key))
       => LET e == EntryOf(entries[L], keyToString(key))
          IN IF e.ttl = 0 \/ now - e.createdAt <= e.ttl
             THEN /\ calls'[nops + 1].res = Val(e.value)
                  /\ Has(entries'[L], keyToString(key))
                  /\ stats'[L].hits = stats[L].hits + 1
             ELSE /\ calls'[nops + 1].res = Undefined
                  /\ ~Has(entries'[L], keyToString(key))
                  /\ stats'[L].misses = stats[L].misses + 1
                  /\ stats'[L].size = stats[L].size - 1

C14_Expiry == [][C14_Step]_vars

\* on a cache with default TTL 1 an entry written with TTL 2 has been read, and
\* returned, at age 2
C14_Witness ==
  \E i \in 1..Len(entries[1]) :
    /\ options[1].ttl = 1
    /\ entries[1][i].ttl = 2
    /\ entries[1][i].lastAccessedAt - entries[1][i].createdAt = 2
    /\ stats[1].hits = 1
    /\ calls[nops].res = Val(entries[1][i].value)

\* the key has an entry that is not expired
Live(L, key) ==
  /\ Has(entries[L], keyToString(key))
  /\ LET e == EntryOf(entries[L], keyToString(key))
     IN e.ttl = 0 \/ now - e.createdAt <= e.ttl

\* the entry of the key is old enough for a refresh
Stale(L, key) ==
  /\ Live(L, key)
  /\ LET e == EntryOf(entries[L], keyToString(key))
     IN /\ options[L].prefetchAfter # 0 /\ e.ttl # 0
        /\ now - e.createdAt >= options[L].prefetchAfter

\* C15: a get that hits (and whose fetch function does not throw at the call)
\* returns the value the entry holds in the same step; if the entry is stale, has
\* no refresh marked and a fetch function is configured, the get has started a
\* background fetch; when a background fetch resolves, no caller is involved and
\* the entry holds the refreshed value
C15_Step ==
  /\ \A L \in Levels, key \in CacheKeys :
       (/\ Live(L, key)
        /\ GetStep
        /\ CallGet(L, key)
        /\ fetches'[nops + 1].status # "thrown")
       => /\ calls'[nops + 1].pc = "done"
          /\ calls'[nops + 1].res = Val(EntryOf(entries[L], keyToString(key)).value)
          /\ stats'[L].hits = stats[L].hits + 1
          /\ (/\ Stale(L, key)
               /\ EntryOf(entries[L], keyToString(key)).isPrefetching = 0
               /\ options[L].fetchFunction)
              => /\ fetches'[nops + 1].kind = "prefetch"
                 /\ fetches'[nops + 1].status \in {"pending", "resolved"}
                 /\ stats'[L].prefetches = stats[L].prefetches + 1
  /\ \A c \in CallIds :
       (/\ fetches[c].kind = "prefetch" /\ fetches[c].status = "pending"
        /\ fetches'[c].status = "resolved")
       => /\ Holds(entries'[fetches[c].level], keyToString(fetches[c].key), fetches'[c].value)
          /\ EntryOf(entries'[fetches[c].level], keyToString(fetches[c].key)).createdAt = now
          /\ calls' = calls

PendingRefresh == {c \in CallIds : fetches[c].kind = "prefetch" /\ fetches[c].status = "pending"}

\* C16: a get that hits an entry on which a refresh is marked starts no fetch,
\* leaves the prefetches counter and the mark as they are and returns the value
C16_Step ==
  \A L \in Levels, key \in CacheKeys :
    (/\ Live(L, key)
     /\ EntryOf(entries[L], keyToString(key)).isPrefetching # 0
     /\ GetStep
     /\ CallGet(L, key))
    => /\ fetches' = fetches
       /\ stats'[L].prefetches = stats[L].prefetches
       /\ Has(entries'[L], keyToString(key))
       /\ EntryOf(entries'[L], keyToString(key)).isPrefetching
            = EntryOf(entries[L], keyToString(key)).isPrefetching
       /\ calls'[nops + 1].res = Val(EntryOf(entries[L], keyToString(key)).value)

C16_OneRefresh == [][C16_Step]_vars

\* a stale entry was hit twice while its refresh is in flight: one fetch, one
\* prefetch counted
C16_Witness ==
  \E i \in 1..Len(entries[1]) :
    /\ entries[1][i].isPrefetching # 0
    /\ PendingRefresh = {entries[1][i].isPrefetching}
    /\ \A c \in CallIds : fetches[c].kind # "none" => c \in PendingRefresh
    /\ stats[1].hits = 2
    /\ stats[1].prefetches = 1

\* C17: an entry carries the refresh flag only while its background fetch is in
\* flight: once the fetch function has answered or failed, at the call or later,
\* the flag is cleared
C17_FlagCleared ==
  \A L \in Levels : \A i \in 1..Len(entries[L]) :
    entries[L][i].isPrefetching # 0 => fetches[entries[L][i].isPrefetching].status = "pending"

\* what a getIfAvailable of key on level L has to leave as it is: the fetch records,
\* the pending maps, every counter, the other calls, and every entry of every
\* level but for the access time of the entry read
AvailFrame(L, key) ==
  /\ fetches' = fetches
  /\ pendingFetches' = pendingFetches
  /\ stats' = stats
  /\ \A c \in CallIds : c # nops + 1 => calls'[c] = calls[c]
  /\ \A l \in Levels :
       /\ Len(entries'[l]) = Len(entries[l])
       /\ \A i \in 1..Len(entries[l]) :
            IF l = L /\ entries[l][i].key = keyToString(key)
            THEN entries'[l][i] = [entries[l][i] EXCEPT !.lastAccessedAt = entries'[l][i].lastAccessedAt]
            ELSE entries'[l][i] = entries[l][i]

\* a getIfAvailable that answers absent where the key is missing, the entry expired
\* or its value one of absentFor, and the stored value otherwise
AvailStep(absentFor) ==
  \A L \in Levels, key \in CacheKeys :
    (/\ GetStep
     /\ CallGetIfAvailable(L, key))
    => /\ AvailFrame(L, key)
       /\ calls'[nops + 1].pc = "done"
       /\ calls'[nops + 1].res =
            IF \/ ~Live(L, key)
               \/ EntryOf(entries[L], keyToString(key)).value \in absentFor
            THEN Undefined
            ELSE Val(EntryOf(entries[L], keyToString(key)).value)

\* C18 (as amended): getIfAvailable starts no fetch, no next-level lookup, no
\* refresh and registers no pending fetch; it answers absent for a missing key, an
\* expired entry and an entry whose value is a future, resolved or not, and the
\* stored value otherwise
C18_Available == [][AvailStep(Futures)]_vars

\* C18 (as stated): the same, with absent for a future only while it is unresolved
C18_AbsentOnlyWhileUnresolved == [][AvailStep({PendingFuture})]_vars

\* a resolved future is stored on the first level, old enough for a refresh, and a
\* getIfAvailable of its key has answered absent and started nothing
C18_Witness ==
  \E c \in CallIds :
    /\ calls[c].op = "getIfAvailable" /\ calls[c].level = 1
    /\ calls[c].res = Undefined
    /\ Stale(1, calls[c].key)
    /\ LET e == EntryOf(entries[1], keyToString(calls[c].key))
       IN /\ e.value = ResolvedFuture
          /\ e.isPrefetching = 0
          /\ e.lastAccessedAt = now /\ e.createdAt < now
    /\ Holds(entries[2], keyToString(calls[c].key), ResolvedFuture)
    /\ \A d \in CallIds : fetches[d] = NoFetch
    /\ stats[1].hits = 0 /\ stats[1].misses = 0 /\ stats[1].prefetches = 0

\* C19: a getOrSet whose get finds the value returns it and never reaches the
\* producer; the producer is reached only after the get came back undefined, it
\* answers once, and its value is then stored under the key with the ttl given to
\* getOrSet (the default ttl if none was given) and returned
C19_Step ==
  /\ \A key \in CacheKeys, ttlArg \in GivenTtls :
       (/\ Live(1, key)
        /\ GetStep
        /\ CallGetOrSet(1, key, ttlArg))
       => /\ calls'[nops + 1].pc = "done"
          /\ calls'[nops + 1].res = Val(EntryOf(entries[1], keyToString(key)).value)
  /\ \A c \in CallIds :
       calls'[c] # calls[c] =>
         LET call == calls[c]
             keyStr == keyToString(call.key)
         IN CASE call.pc = "produce" ->
                   /\ calls'[c].pc = "done"
                   /\ \/ calls'[c].res = Failure /\ entries' = entries /\ stats' = stats
                      \/ /\ calls'[c].res.kind = "value"
                         /\ Holds(entries'[1], keyStr, calls'[c].res.value)
                         /\ LET e == EntryOf(entries'[1], keyStr)
                            IN /\ e.createdAt = now
                               /\ e.ttl = IF call.ttl = NoTtl THEN options[1].ttl ELSE call.ttl[1]
              [] call.op = "getOrSet" /\ call.pc # "produce" ->
                   \/ calls'[c].pc \in {"return", "awaitFetch", "attached"}
                   \/ calls'[c].pc = "produce" /\ calls'[c].res = Undefined
                   \/ /\ calls'[c].pc = "done"
                      /\ \/ calls'[c].res = Failure
                         \/ /\ calls'[c].res.kind = "value"
                            /\ Holds(entries'[1], keyStr, calls'[c].res.value)
              [] call.pc = "done" -> FALSE
              [] OTHER ->
                   calls'[c].pc = "produce" => calls'[c].res = Undefined

C19_GetOrSet == [][C19_Step]_vars

\* the next level had nothing for the key, the producer answered, and its value is
\* stored on both levels with the ttl given to getOrSet, not the default one
C19_Witness ==
  \E key \in CacheKeys :
    /\ options[1].ttl = 1
    /\ Holds(entries[1], keyToString(key), "p")
    /\ EntryOf(entries[1], keyToString(key)).ttl = 2
    /\ Holds(entries[2], keyToString(key), "p")
    /\ stats[1].misses = 1 /\ stats[2].misses = 1
    /\ \E c \in CallIds : calls[c].pc = "done" /\ calls[c].res = Val("p")

\* the key strings of the keys whose own segments start with the prefix
MatchedBy(keyPrefix) ==
  {keyToString(k) : k \in {x \in InvKeys :
      /\ Len(x.segs) >= Len(keyPrefix)
      /\ \A i \in 1..Len(keyPrefix) : x.segs[i] = keyPrefix[i]}}

\* an invalidation called on level L removed the entries with a key string in ks and
\* nothing else: in the levels it reaches the other entries stay as they are and
\* in their order, the counters keep their values and size is the new number of
\* entries; the other levels, the fetches and the calls are as before
RemovedExactly(L, forwardToNext, ks) ==
  LET reach == IF forwardToNext THEN Chain(L) ELSE {L}
      stays(e) == e.key \notin ks
  IN /\ \A l \in reach :
          /\ entries'[l] = SelectSeq(entries[l], stays)
          /\ stats'[l] = [stats[l] EXCEPT !.size = Len(entries'[l])]
     /\ Untouched(reach)
     /\ fetches' = fetches /\ pendingFetches' = pendingFetches /\ calls' = calls

\* C20: invalidate removes the entry of the key, invalidateByPrefix the entries
\* whose segments start with the prefix (all of them for the empty prefix),
\* invalidateAll every entry; all other entries and the counters hits, misses,
\* evictions and prefetches are unchanged and size is the number of entries left
\* (the first conjuncts of each antecedent follow from the action and are cheap)
C20_Step ==
  WriteStep =>
    \A L \in Levels, f \in BOOLEAN :
      /\ \A key \in InvKeys :
           (/\ ~Has(entries'[L], keyToString(key))
            /\ CallInvalidate(L, key, f))
           => RemovedExactly(L, f, {keyToString(key)})
      /\ \A keyPrefix \in InvPrefixes :
           (/\ Len(entries'[L]) <= Len(entries[L])
            /\ CallInvalidateByPrefix(L, keyPrefix, f))
           => RemovedExactly(L, f, MatchedBy(keyPrefix))
      /\ (/\ entries'[L] = <<>>
          /\ CallInvalidateAll(L, f))
         => RemovedExactly(L, f, AllKeyStrs)

C20_Invalidation == [][C20_Step]_vars

\* the three keys were stored, one was read, and one non-forwarded invalidation
\* with the prefix ["a"] left only the plain key "ab" on the first level
C20_Witness ==
  /\ nops = 2
  /\ KeysOf(entries[1]) = {keyToString(KeyAb)}
  /\ stats[1].size = 1 /\ stats[1].hits = 1
  /\ Len(entries[2]) = 2 /\ stats[2].evictions = 1

\* C21: where every entry was stored under a single-string key, an
\* invalidateByPrefix with a prefix of two or more segments removes nothing,
\* whatever characters the strings contain
C21_Step ==
  WriteStep =>
    \A L \in Levels, keyPrefix \in InvPrefixes, f \in BOOLEAN :
      (/\ Len(keyPrefix) >= 2
       /\ CallInvalidateByPrefix(L, keyPrefix, f))
      => entries' = entries

C21_StringKeyIsOneSegment == [][C21_Step]_vars

\* the canonical string form of a key of one or two segments, written out
Canon(key) ==
  IF Len(key.segs) = 1 THEN key.segs[1] ELSE key.segs[1] \o <<"::">> \o key.segs[2]

\* the step left alone every entry whose key string is not the canonical form of
\* key, and the level holds at most one entry per key string
OnlyEntryOf(key) ==
  LET other(e) == e.key # Canon(key)
  IN /\ SelectSeq(entries'[1], other) = SelectSeq(entries[1], other)
     /\ \A i, j \in 1..Len(entries'[1]) : entries'[1][i].key = entries'[1][j].key => i = j

\* what a read through key answers: the value of the entry under its canonical form
Addressed(key) ==
  IF Has(entries[1], Canon(key)) THEN Val(EntryOf(entries[1], Canon(key)).value)
  ELSE Undefined

\* C22: set, get, getIfAvailable and invalidate through a key act on the entry
\* stored under the key's canonical string form and on no other entry: an array
\* key and the string equal to its joined form address one entry, keys with
\* different canonical forms address different entries
C22_Step ==
  \A key \in AliasKeys :
    /\ \A value \in Values :
         (WriteStep /\ CallSet(1, key, value, NoTtl, TRUE))
         => Holds(entries'[1], Canon(key), value) /\ OnlyEntryOf(key)
    /\ (WriteStep /\ CallInvalidate(1, key, TRUE))
       => ~Has(entries'[1], Canon(key)) /\ OnlyEntryOf(key)
    /\ (GetStep /\ CallGet(1, key))
       => calls'[nops + 1].res = Addressed(key) /\ OnlyEntryOf(key)
    /\ (GetStep /\ CallGetIfAvailable(1, key))
       => calls'[nops + 1].res = Addressed(key) /\ OnlyEntryOf(key)

C22_CanonicalKey == [][C22_Step]_vars

\* one entry was stored, and getIfAvailable answered its value both through the
\* array ["a", "b"] and through the string "a::b"
C22_Witness ==
  /\ Len(entries[1]) = 1
  /\ \E c, d \in CallIds :
       /\ calls[c].op = "getIfAvailable" /\ calls[c].key = KeyAB
       /\ calls[d].op = "getIfAvailable" /\ calls[d].key = KeySep
       /\ calls[c].res = Val(entries[1][1].value) /\ calls[d].res = calls[c].res

\* C23: in every state hitRatio is the fraction hits/(hits + misses), and 0 (written
\* 0/1) while no get has been counted
C23_HitRatio ==
  \A L \in Levels :
    stats[L].hitRatio = IF stats[L].hits + stats[L].misses > 0
                        THEN <<stats[L].hits, stats[L].hits + stats[L].misses>>
                        ELSE <<0, 1>>

\* one hit out of three gets
C23_Witness == \E L \in Levels : stats[L].hits = 1 /\ stats[L].misses = 2

\* C24: no step decreases hits, misses, evictions or prefetches of any cache
C24_Step ==
  \A L \in Levels :
    /\ stats'[L].hits >= stats[L].hits
    /\ stats'[L].misses >= stats[L].misses
    /\ stats'[L].evictions >= stats[L].evictions
    /\ stats'[L].prefetches >= stats[L].prefetches

C24_Monotone == [][C24_Step]_vars

\* a miss, a hit that started a refresh, and then an invalidation that emptied the
\* cache: the counters kept their values
C24_Witness ==
  /\ nops = 3
  /\ entries[1] = <<>>
  /\ stats[1].size = 0
  /\ stats[1].hits = 1 /\ stats[1].misses = 1 /\ stats[1].prefetches = 1

\* C25: a constructor call with prefetchAfter and ttl both set and prefetchAfter >=
\* ttl fails and leaves no cache; with prefetchAfter < ttl (and a known policy) it
\* succeeds with these options
C25_Step ==
  \A opt \in ConstructOptions :
    (/\ nops < MaxOps
     /\ options = <<>>
     /\ Construct(opt))
    => /\ (opt.prefetchAfter # 0 /\ opt.ttl # 0 /\ opt.prefetchAfter >= opt.ttl)
          => /\ calls'[nops + 1].res = Failure
             /\ options' = <<>> /\ entries' = <<>> /\ stats' = <<>>
       /\ (opt.prefetchAfter # 0 /\ opt.ttl # 0 /\ opt.prefetchAfter < opt.ttl
           /\ opt.evictionPolicy \in Policies)
          => /\ calls'[nops + 1].res # Failure
             /\ options' = <<opt>>

C25_PrefetchBelowTtl == [][C25_Step]_vars

\* a first constructor call failed, a second one with prefetchAfter 1 and ttl 2
\* built the cache
C25_Witness ==
  /\ calls[1].op = "new" /\ calls[1].res = Failure
  /\ calls[2].op = "new" /\ calls[2].res # Failure
  /\ Len(options) = 1
  /\ options[1].prefetchAfter = 1 /\ options[1].ttl = 2

\* C26: no cache is ever built with a maxSize that is not positive
C26_PositiveMaxSize == \A L \in Levels : options[L].maxSize > 0

\* C27: the clock never goes back, and every stored entry was last accessed no
\* earlier than it was created
C27_AccessAfterCreation ==
  \A L \in Levels : \A i \in 1..Len(entries[L]) :
    entries[L][i].lastAccessedAt >= entries[L][i].createdAt

\* an entry stored after the start and read later than it was stored
C27_Witness ==
  \E i \in 1..Len(entries[1]) :
    /\ entries[1][i].createdAt > 0
    /\ entries[1][i].lastAccessedAt > entries[1][i].createdAt

\* no call has invoked the original method more than once
C28_InvokedOnce == \A c \in CallIds : calls[c].invoked <= 1

\* a call that finds the value stored for its arguments returns it and does not
\* invoke the original method
C28_HitStep ==
  \A args \in MethodArgs :
    (/\ Has(entries[1], keyToString(buildCacheKey(args)))
     /\ GetStep
     /\ CallCacheGet(1, args))
    => /\ calls'[nops + 1].pc = "done"
       /\ calls'[nops + 1].invoked = 0
       /\ calls'[nops + 1].res =
            Val(EntryOf(entries[1], keyToString(buildCacheKey(args))).value)

\* the result of the invocation made on a miss is stored under the key of the call
C28_StoreStep ==
  \A c \in CallIds :
    (calls[c].pc = "method" /\ calls'[c].pc = "done")
    => Holds(entries'[1], keyToString(calls[c].key), calls'[c].res.value)

C28_Hit == [][C28_HitStep]_vars
C28_Stored == [][C28_StoreStep]_vars

\* C28: a call of a method wrapped by @CacheGet invokes the original method at
\* most once: not at all when the cache holds a value for the key of the
\* arguments, once on a miss, and the result is then stored under that key
C28_AtMostOnce ==
  /\ []C28_InvokedOnce
  /\ C28_Hit
  /\ C28_Stored

\* C29: every get counts exactly one hit or one miss on the cache it is called on:
\* a hit if the key has an unexpired entry, else a miss, and then the expired entry
\* is gone; whatever happens to the call later changes neither counter
C29_Step ==
  /\ \A L \in Levels, key \in CacheKeys :
       (GetStep /\ CallGet(L, key))
       => IF Live(L, key)
          THEN /\ stats'[L].hits = stats[L].hits + 1
               /\ stats'[L].misses = stats[L].misses
          ELSE /\ stats'[L].misses = stats[L].misses + 1
               /\ stats'[L].hits = stats[L].hits
               /\ ~Has(entries'[L], keyToString(key))
  /\ nops' = nops
     => \A L \in Levels : /\ stats'[L].hits = stats[L].hits
                          /\ stats'[L].misses = stats[L].misses

C29_OneCount == [][C29_Step]_vars

\* the step started a background refresh and counted it
RefreshStarted ==
  /\ stats'[1].prefetches = stats[1].prefetches + 1
  /\ fetches[nops + 1].kind = "none" /\ fetches'[nops + 1].kind = "prefetch"

\* the step started no refresh and left prefetches as it was
NoRefreshStarted ==
  /\ stats'[1].prefetches = stats[1].prefetches
  /\ \A c \in CallIds : fetches'[c].kind = "prefetch" => fetches[c].kind = "prefetch"

\* C30: a get that hits starts a background refresh and counts one prefetch
\* exactly if a threshold is configured, the entry has a TTL, its age has reached
\* the threshold, it is not marked as refreshing and a fetch function is
\* configured; no other step starts a refresh or changes prefetches
C30_Step ==
  IF nops < MaxOps /\ GetStep /\ CallGet(1, KeyA) /\ Live(1, KeyA)
  THEN LET e == EntryOf(entries[1], keyToString(KeyA))
           eligible == /\ options[1].prefetchAfter # 0
                       /\ e.ttl # 0
                       /\ now - e.createdAt >= options[1].prefetchAfter
                       /\ e.isPrefetching = 0
                       /\ options[1].fetchFunction
       IN IF eligible THEN RefreshStarted ELSE NoRefreshStarted
  ELSE NoRefreshStarted

C30_Eligibility == [][C30_Step]_vars

\* a cache without default TTL holds an entry with a TTL of its own; a get has
\* started its refresh, which is still pending
C30_Witness ==
  /\ options[1].ttl = 0 /\ options[1].prefetchAfter = 1 /\ options[1].fetchFunction
  /\ Has(entries[1], keyToString(KeyA))
  /\ LET e == EntryOf(entries[1], keyToString(KeyA))
     IN /\ e.ttl = 2
        /\ e.isPrefetching # 0
        /\ fetches[e.isPrefetching].kind = "prefetch"
        /\ fetches[e.isPrefetching].status = "pending"
  /\ stats[1].prefetches = 1 /\ stats[1].hits = 1

\* the step leaves the key, value, createdAt and ttl of every entry of level L as
\* they are
SameContent(L) ==
  /\ Len(entries'[L]) = Len(entries[L])
  /\ \A i \in 1..Len(entries[L]) :
       /\ entries'[L][i].key = entries[L][i].key
       /\ entries'[L][i].value = entries[L][i].value
       /\ entries'[L][i].createdAt = entries[L][i].createdAt
       /\ entries'[L][i].ttl = entries[L][i].ttl

\* C31: the get that starts a background refresh completes in the same step with
\* the value the entry holds, whatever becomes of the refresh; when the refresh
\* fails, at the call or later, the entries keep their value, createdAt and ttl
\* and the result of the get stays as it was
C31_Step ==
  /\ \A L \in Levels, key \in CacheKeys :
       (GetStep /\ fetches'[nops + 1].kind = "prefetch" /\ CallGet(L, key))
       => /\ calls'[nops + 1].pc = "done"
          /\ calls'[nops + 1].res = Val(EntryOf(entries[L], keyToString(key)).value)
          /\ fetches'[nops + 1].status = "thrown" => SameContent(L)
  /\ \A c \in CallIds :
       (/\ fetches[c].kind = "prefetch" /\ fetches[c].status = "pending"
        /\ fetches'[c].status = "rejected")
       => /\ calls[c].pc = "done" /\ calls[c].res.kind = "value"
          /\ calls' = calls
          /\ \A L \in Levels : SameContent(L)

C31_FailedRefresh == [][C31_Step]_vars

\* the step runs set for key on level L: a set call, a resolved miss fetch or the
\* producer of a getOrSet
SetsKey(L, key) ==
  \/ WriteStep /\ \E value \in Values : CallSet(L, key, value, NoTtl, TRUE)
  \/ \E c \in CallIds :
       /\ fetches[c].kind = "miss" /\ fetches[c].status = "pending"
       /\ fetches'[c].status = "resolved"
       /\ fetches[c].level = L /\ fetches[c].key = key
  \/ \E c \in CallIds :
       /\ calls[c].pc = "produce" /\ calls'[c].pc = "done" /\ calls'[c].res.kind = "value"
       /\ calls[c].level = L /\ calls[c].key = key

\* the number of entries when set has stored the entry of key and not yet evicted
CountAfterStore(L, key) ==
  Len(entries[L]) + (IF Has(entries[L], keyToString(key)) THEN 0 ELSE 1)

\* C32: a step that runs set adds to evictions the number of entries its eviction
\* step removed; without a byte cap these are the count - maxSize entries above
\* the limit; every other step (a get that deletes an expired entry, invalidate,
\* invalidateByPrefix, invalidateAll) leaves evictions as it is
C32_Step ==
  \A L \in Levels :
    IF \E key \in CacheKeys : SetsKey(L, key)
    THEN \E key \in CacheKeys :
           /\ SetsKey(L, key)
           /\ stats'[L].evictions - stats[L].evictions
                = CountAfterStore(L, key) - Len(entries'[L])
           /\ options[L].maxSizeBytes = 0
                => Len(entries'[L]) = IF CountAfterStore(L, key) > options[L].maxSize
                                      THEN options[L].maxSize
                                      ELSE CountAfterStore(L, key)
    ELSE stats'[L].evictions = stats[L].evictions

C32_Evictions == [][C32_Step]_vars

\* one set removed two entries through the byte loop and counted both
C32_Witness ==
  \E L \in Levels :
    /\ options[L].maxSize = 2 /\ options[L].maxSizeBytes # 0
    /\ nops = 2 /\ calls = [c \in CallIds |-> NoCall]
    /\ stats[L].evictions = 2
    /\ Len(entries[L]) = 0

\* C33: between the steps stats.size is the number of stored entries and, with
\* maxSizeBytes configured, stats.sizeBytes is the sum of their size estimates
C33_SizeTracked ==
  \A L \in Levels :
    /\ stats[L].size = Len(entries[L])
    /\ options[L].maxSizeBytes # 0 => stats[L].sizeBytes = SumBytes(entries[L])

\* a byte-capped cache that has evicted, has dropped an expired entry on a get
\* and holds one entry of three bytes
C33_Witness ==
  \E L \in Levels :
    /\ options[L].maxSizeBytes # 0 /\ options[L].ttl # 0
    /\ stats[L].evictions > 0 /\ stats[L].misses > 0
    /\ Len(entries[L]) = 1 /\ stats[L].sizeBytes = 3

\* the entries the step removed from level L, the entry set stores for key with
\* value among them if it is gone
RemovedBytes(L, key, value) ==
  LET kept == KeysOf(entries'[L])
      old == {i \in 1..Len(entries[L]) :
                entries[L][i].key # keyToString(key) /\ entries[L][i].key \notin kept}
  IN [n |-> Cardinality(old) + (IF keyToString(key) \in kept THEN 0 ELSE 1),
      sizes |-> {entries[L][i].sizeBytes : i \in old}
                  \cup (IF keyToString(key) \in kept THEN {} ELSE {calculateSizeBytes(value)})]

\* a set of key with value on the byte-capped level 1 has run its eviction loop
C34_Loop(key, value) ==
  LET cap == options[1].maxSizeBytes
      removed == RemovedBytes(1, key, value)
  IN \* the loop came to an end under the cap or on the empty store
     /\ SumBytes(entries'[1]) <= cap
     \* one entry and one count per iteration
     /\ removed.n = CountAfterStore(1, key) - Len(entries'[1])
     /\ stats'[1].evictions = stats[1].evictions + removed.n
     \* it did not go on after the total had come under the cap
     /\ removed.n > 0 => \E size \in removed.sizes : SumBytes(entries'[1]) + size > cap
     \* an entry that alone exceeds the cap is removed, and the store it was alone
     \* in is empty
     /\ calculateSizeBytes(value) > cap
          => /\ ~Has(entries'[1], keyToString(key))
             /\ KeysOf(entries[1]) \subseteq {keyToString(key)} => Len(entries'[1]) = 0

C34_Step ==
  \A key \in ByteKeys, value \in ByteValues :
    (WriteStep /\ CallSet(1, key, value, NoTtl, TRUE)) => C34_Loop(key, value)

\* every set has an outcome, whatever the store holds
C34_SetCompletes ==
  nops < MaxOps =>
    \A key \in ByteKeys, value \in ByteValues : set(World, 1, key, value, NoTtl, TRUE) # {}

Replaced(L, key, value, ttl) ==
  LET i == IndexOf(entries[L], keyToString(key))
  IN /\ Len(entries'[L]) = Len(entries[L])
     /\ stats'[L].size = stats[L].size
     /\ stats'[L].evictions = stats[L].evictions
     /\ entries'[L][i].key = keyToString(key)
     /\ entries'[L][i].value = value
     /\ entries'[L][i].createdAt = now /\ entries'[L][i].lastAccessedAt = now
     /\ entries'[L][i].ttl = ttl
     /\ entries'[L][i].isPrefetching = 0
     /\ \A j \in 1..Len(entries[L]) : j # i => entries'[L][j] = entries[L][j]

\* C35: a set on a key that has an entry (current or expired, refreshing or not)
\* puts a new entry in its place: the given value, createdAt and lastAccessedAt
\* now, the TTL of the call or else the default, no refresh flag; the number of
\* entries stays and nothing is evicted
C35_Step ==
  \A key \in CacheKeys, value \in Values, ttlArg \in PerEntryTtls :
    (/\ WriteStep
     /\ Has(entries[1], keyToString(key))
     /\ CallSet(1, key, value, ttlArg, TRUE))
    => Replaced(1, key, value, IF ttlArg = NoTtl THEN options[1].ttl ELSE ttlArg[1])

C35_ReplacingSet == [][C35_Step]_vars

\* the entry of a full cache was replaced while its refresh was in flight: the new
\* entry carries no flag, has the TTL of the set and a later createdAt; nothing
\* was evicted
C35_Witness ==
  /\ Len(entries[1]) = options[1].maxSize
  /\ stats[1].evictions = 0 /\ stats[1].prefetches = 1
  /\ \E c \in PendingRefresh :
       /\ Has(entries[1], keyToString(fetches[c].key))
       /\ LET e == EntryOf(entries[1], keyToString(fetches[c].key))
          IN e.isPrefetching = 0 /\ e.ttl = 2 /\ e.createdAt > 0

\* C36: under LRU and FILO, with maxSize >= 1 and no byte cap, the key a set has
\* written is in the store when the set has run its eviction step
C36_Step ==
  \A key \in ByteKeys :
    (WriteStep /\ CallSet(1, key, "v", NoTtl, TRUE))
    => /\ Has(entries'[1], keyToString(key))
       /\ EntryOf(entries'[1], keyToString(key)).createdAt = now

C36_WrittenKeyStays == [][C36_Step]_vars

\* the clock has not moved: three keys were written into a cache of two entries
\* with equal timestamps, the first one was evicted and the last one is stored
C36_Witness ==
  /\ now = 0 /\ nops = 3
  /\ options[1].maxSize = 2
  /\ stats[1].evictions = 1
  /\ Len(entries[1]) = 2
  /\ \A i \in 1..Len(entries[1]) : entries[1][i].lastAccessedAt = 0

\* C37: an invalidation leaves the fetches in flight and the pending map as they
\* are; when a fetch in flight (for a miss or for a refresh) resolves, no caller
\* acts and the key holds the fetched value in a new entry, also when the key was
\* invalidated in between
C37_Step ==
  /\ WriteStep => fetches' = fetches /\ pendingFetches' = pendingFetches
  /\ \A c \in CallIds :
       (fetches[c].status = "pending" /\ fetches'[c].status = "resolved")
       => /\ nops' = nops
          /\ Holds(entries'[fetches[c].level], keyToString(fetches[c].key), fetches'[c].value)
          /\ EntryOf(entries'[fetches[c].level], keyToString(fetches[c].key)).createdAt = now

C37_InFlightSurvives == [][C37_Step]_vars

\* two gets and an invalidation, the last of the three: the second get had started
\* a refresh, which resolved after the invalidation and stored the key again
C37_Witness ==
  /\ nops = 3
  /\ calls[1].pc = "done" /\ calls[2].pc = "done" /\ calls[3] = NoCall
  /\ fetches[1].kind = "miss" /\ fetches[1].status = "resolved"
  /\ fetches[2].kind = "prefetch" /\ fetches[2].status = "resolved"
  /\ Holds(entries[1], keyToString(KeyA), fetches[2].value)
  /\ fetches[2].value # fetches[1].value

\* C38: a get that misses on the first level and hits on the next holds the value
\* the next level had at that moment; no later step changes it, and when the get
\* resumes it stores that value on the first level alone, whatever the two levels
\* hold by then
C38_Step ==
  /\ \A key \in CacheKeys :
       (GetStep /\ CallGet(1, key) /\ calls'[nops + 1].pc = "return"
        /\ calls'[nops + 1].res.kind = "value")
       => calls'[nops + 1].res = Val(EntryOf(entries[2], keyToString(key)).value)
  /\ \A c \in CallIds :
       (calls[c].pc = "return" /\ calls[c].res.kind = "value")
       => IF calls'[c] = calls[c] THEN TRUE
          ELSE /\ calls'[c].pc = "done" /\ calls'[c].res = calls[c].res
               /\ Holds(entries'[1], keyToString(calls[c].key), calls[c].res.value)
               /\ entries'[2] = entries[2]
  /\ \A c \in CallIds :
       (calls[c].pc = "return" /\ WriteStep) => calls'[c] = calls[c]

C38_LateStore == [][C38_Step]_vars

\* no fetch function was invoked, every set was made on the first level and
\* forwarded, and the second level holds the value of such a set: the set ran
\* while a get was waiting for the second level's older value, which the get has
\* stored on the first level since
C38_Witness ==
  \E c \in CallIds, key \in CacheKeys :
    /\ \A f \in CallIds : fetches[f].kind = "none"
    /\ calls[c].pc = "done" /\ calls[c].res = Val("v")
    /\ Holds(entries[1], keyToString(key), "v")
    /\ Holds(entries[2], keyToString(key), "www")

\* C39: getIfAvailable leaves the counters, the size, the pending map, the fetch
\* records and the stored entries as they are, an expired entry included; the one
\* thing it writes is lastAccessedAt = now on the unexpired entry it finds. An
\* expired entry that is still stored counts for the limit: a set of a new key on
\* the full store evicts
C39_Step ==
  /\ \A key \in ByteKeys :
       (GetStep /\ CallGetIfAvailable(1, key))
       => /\ stats' = stats
          /\ pendingFetches' = pendingFetches
          /\ fetches' = fetches
          /\ Len(entries'[1]) = Len(entries[1])
          /\ \A i \in 1..Len(entries[1]) :
               IF entries[1][i].key = keyToString(key) /\ Live(1, key)
               THEN entries'[1][i] = [entries[1][i] EXCEPT !.lastAccessedAt = now]
               ELSE entries'[1][i] = entries[1][i]
  /\ \A key \in ByteKeys :
       (/\ WriteStep
        /\ ~Has(entries[1], keyToString(key))
        /\ Len(entries[1]) = options[1].maxSize
        /\ CallSet(1, key, "v", NoTtl, TRUE))
       => stats'[1].evictions = stats[1].evictions + 1

C39_OnlyAccessTime == [][C39_Step]_vars

\* no get is ever made. An entry was read with getIfAvailable after its creation and
\* was spared by the eviction a later set caused; it has expired since, a
\* getIfAvailable has answered absent for it, and it is still stored in the full
\* store
C39_Witness ==
  \E c \in CallIds :
    /\ calls[c].op = "getIfAvailable" /\ calls[c].res = Undefined
    /\ stats[1].hits = 0 /\ stats[1].misses = 0 /\ stats[1].evictions = 1
    /\ Len(entries[1]) = options[1].maxSize
    /\ Has(entries[1], keyToString(calls[c].key))
    /\ LET e == EntryOf(entries[1], keyToString(calls[c].key))
       IN /\ isExpired(e)
          /\ e.lastAccessedAt > e.createdAt
          /\ \E i \in 1..Len(entries[1]) : entries[1][i].createdAt > e.lastAccessedAt

\* C40: when a background refresh has its value, at the call or later, the key
\* holds that value in an entry with the default TTL of the cache, whatever TTL
\* the replaced entry had
C40_Step ==
  \A c \in CallIds :
    (/\ fetches'[c].kind = "prefetch" /\ fetches'[c].status = "resolved"
     /\ fetches[c].status # "resolved")
    => /\ Holds(entries'[1], keyToString(KeyA), fetches'[c].value)
       /\ EntryOf(entries'[1], keyToString(KeyA)).ttl = options[1].ttl

C40_RefreshDefaultTtl == [][C40_Step]_vars

\* a cache without default TTL: the entry was stored with a TTL of its own (only
\* such an entry is refreshed there), read, and its refresh resolved later; the
\* refreshed entry has no TTL
C40_Witness ==
  /\ options[1].ttl = 0
  /\ nops = 2
  /\ fetches[2].kind = "prefetch" /\ fetches[2].status = "resolved"
  /\ calls[2].pc = "done" /\ calls[2].res.value # fetches[2].value
  /\ Holds(entries[1], keyToString(KeyA), fetches[2].value)
  /\ EntryOf(entries[1], keyToString(KeyA)).ttl = 0

====
